---- MODULE Spec2Model ----
(***************************************************************************)
(* Model of ubuntu-packages/find-unique-and-duplicate-features.py: the     *)
(* uniqueness classifier and aggregator (generate_dumps) together with its *)
(* classification primitives get_num_origins and get_uniq_class.           *)
(*                                                                         *)
(* Python dicts are modelled as sequences of [k, v] records so that the    *)
(* insertion order the code iterates in is part of the state; Python lists *)
(* and tuples are sequences.                                               *)
(***************************************************************************)
EXTENDS Integers, Sequences, FiniteSets, TLC

----------------------------------------------------------------------------
(* Bounds *)

\* total number of raw list entries in the corpus (over all binaries and
\* feature types)
MaxEntries == 4

\* largest origin count fed to the classification primitive on its own
MaxCount == 4

----------------------------------------------------------------------------
(* Python dict helpers (insertion ordered) *)

HasKey(d, key) == \E i \in DOMAIN d : d[i].k = key

KeyIdx(d, key) == CHOOSE i \in DOMAIN d : d[i].k = key

Get(d, key) == d[KeyIdx(d, key)].v

Put(d, key, val) ==
    IF HasKey(d, key)
    THEN [d EXCEPT ![KeyIdx(d, key)] = [k |-> key, v |-> val]]
    ELSE Append(d, [k |-> key, v |-> val])

Range(s) == {s[i] : i \in DOMAIN s}

Last(s) == s[Len(s)]

BoundedSeq(S, n) == UNION {[1..m -> S] : m \in 0..n}

----------------------------------------------------------------------------
(* The corpus universe *)

\* the package index: every binary package name has one source package
Packages == [a1 |-> "srca", a2 |-> "srca", b1 |-> "srcb"]

PkgBasename(name) == name \o "_1.0_amd64.deb"

\* an ElfPath value
ElfPath(source_pkg, binary_pkg, name) ==
    [source_pkg |-> source_pkg, binary_pkg |-> binary_pkg, name |-> name]

\* ElfPath.__str__
ElfPathStr(elf_path) ==
    elf_path.source_pkg \o "/" \o elf_path.binary_pkg \o "-" \o elf_path.name

\* the binaries extracted from the packages, in the (sorted) order in which
\* the extraction run writes them to from-elfs.json
ExtractedElfs ==
    << ElfPath(Packages.a1, PkgBasename("a1"), "x"),
       ElfPath(Packages.a1, PkgBasename("a1"), "y"),
       ElfPath(Packages.a2, PkgBasename("a2"), "x"),
       ElfPath(Packages.b1, PkgBasename("b1"), "x") >>

\* feature types in the order the extractor emits them (two of the five)
FEATURE_TYPES == <<"strings", "defined_functions">>

\* feature values: the distinct strings of the corpus, named in the order in
\* which the input first mentions them
ValueNames == <<"v", "w">>

Values == {ValueNames[n] : n \in DOMAIN ValueNames}

UNIQ_CLASSES == <<"elf_unique", "binary_pkg_unique", "source_pkg_unique", "not_unique">>

----------------------------------------------------------------------------
(* Classification primitives *)

NumOrigins(num_source_pkgs, num_binary_pkgs, num_elfs) ==
    [num_source_pkgs |-> num_source_pkgs,
     num_binary_pkgs |-> num_binary_pkgs,
     num_elfs |-> num_elfs]

\* get_num_origins with the two package counts bound to each other's field
get_num_origins_SwappedPkgs(elf_paths) ==
    NumOrigins(Cardinality({elf_paths[i].binary_pkg : i \in DOMAIN elf_paths}),
               Cardinality({elf_paths[i].source_pkg : i \in DOMAIN elf_paths}),
               Cardinality(DOMAIN elf_paths))

\* get_num_origins counting the distinct file names for num_elfs
get_num_origins_DistinctNames(elf_paths) ==
    NumOrigins(Cardinality({elf_paths[i].source_pkg : i \in DOMAIN elf_paths}),
               Cardinality({elf_paths[i].binary_pkg : i \in DOMAIN elf_paths}),
               Cardinality({elf_paths[i].name : i \in DOMAIN elf_paths}))

\* elf_paths is a Python collection, modelled as a function from positions
\* to elements (a sequence for a list, the identity on S for a set S)
get_num_origins(elf_paths) ==
    NumOrigins(Cardinality({elf_paths[i].source_pkg : i \in DOMAIN elf_paths}),
               Cardinality({elf_paths[i].binary_pkg : i \in DOMAIN elf_paths}),
               Cardinality(DOMAIN elf_paths))

\* get_uniq_class testing the source package count before the binary
\* package count
get_uniq_class_SourceFirst(num_origins) ==
    IF num_origins.num_elfs = 1 THEN "elf_unique"
    ELSE IF num_origins.num_source_pkgs = 1 THEN "source_pkg_unique"
    ELSE IF num_origins.num_binary_pkgs = 1 THEN "binary_pkg_unique"
    ELSE "not_unique"

\* get_uniq_class whose last return repeats the one before it
get_uniq_class_NoFallback(num_origins) ==
    IF num_origins.num_elfs = 1 THEN "elf_unique"
    ELSE IF num_origins.num_binary_pkgs = 1 THEN "binary_pkg_unique"
    ELSE "source_pkg_unique"

get_uniq_class(num_origins) ==
    IF num_origins.num_elfs = 1 THEN "elf_unique"
    ELSE IF num_origins.num_binary_pkgs = 1 THEN "binary_pkg_unique"
    ELSE IF num_origins.num_source_pkgs = 1 THEN "source_pkg_unique"
    ELSE "not_unique"

\* set(...) of a collection, as a collection
AsSet(S) == [e \in S |-> e]

----------------------------------------------------------------------------
(* generate_dumps: building the occurrence lists *)

\* AddInstance without the `elif ...[-1] == elf_path: continue` branch
AddInstance_NoDedup(inst_to_locations, feature_type, inst, elf_path) ==
    LET locations_dict == IF HasKey(inst_to_locations, inst)
                          THEN Get(inst_to_locations, inst) ELSE <<>>
    IN  Put(inst_to_locations, inst,
            Put(locations_dict, feature_type,
                Append(IF HasKey(locations_dict, feature_type)
                       THEN Get(locations_dict, feature_type) ELSE <<>>,
                       elf_path)))

\* AddInstance comparing with the first element of the list, not the last
AddInstance_FirstElement(inst_to_locations, feature_type, inst, elf_path) ==
    LET locations_dict == IF HasKey(inst_to_locations, inst)
                          THEN Get(inst_to_locations, inst) ELSE <<>>
    IN  IF ~HasKey(locations_dict, feature_type)
        THEN Put(inst_to_locations, inst,
                 Put(locations_dict, feature_type, <<elf_path>>))
        ELSE IF Get(locations_dict, feature_type)[1] = elf_path
        THEN inst_to_locations
        ELSE Put(inst_to_locations, inst,
                 Put(locations_dict, feature_type,
                     Append(Get(locations_dict, feature_type), elf_path)))

\* body of `for inst in instances`
AddInstance(inst_to_locations, feature_type, inst, elf_path) ==
    LET locations_dict == IF HasKey(inst_to_locations, inst)
                          THEN Get(inst_to_locations, inst) ELSE <<>>
    IN  IF ~HasKey(locations_dict, feature_type)
        THEN Put(inst_to_locations, inst,
                 Put(locations_dict, feature_type, <<elf_path>>))
        ELSE IF Last(Get(locations_dict, feature_type)) = elf_path
        THEN inst_to_locations
        ELSE Put(inst_to_locations, inst,
                 Put(locations_dict, feature_type,
                     Append(Get(locations_dict, feature_type), elf_path)))

RECURSIVE AddInstances(_, _, _, _)
AddInstances(inst_to_locations, feature_type, instances, elf_path) ==
    IF instances = <<>> THEN inst_to_locations
    ELSE AddInstances(
            AddInstance(inst_to_locations, feature_type, instances[1], elf_path),
            feature_type, Tail(instances), elf_path)

\* body of `for elf_path, features_dict in elf_to_features.items()`,
\* inst_to_locations part
RECURSIVE AddFeatures(_, _, _)
AddFeatures(inst_to_locations, features_dict, elf_path) ==
    IF features_dict = <<>> THEN inst_to_locations
    ELSE AddFeatures(
            AddInstances(inst_to_locations, features_dict[1].k,
                         features_dict[1].v, elf_path),
            Tail(features_dict), elf_path)

\* the same loop body, elfs_having_feature_type part
RECURSIVE AddHaving(_, _, _)
AddHaving(having, features_dict, elf_path) ==
    IF features_dict = <<>> THEN having
    ELSE AddHaving(
            IF features_dict[1].v # <<>>
            THEN Put(having, features_dict[1].k,
                     Append(IF HasKey(having, features_dict[1].k)
                            THEN Get(having, features_dict[1].k) ELSE <<>>,
                            elf_path))
            ELSE having,
            Tail(features_dict), elf_path)

----------------------------------------------------------------------------
(* generate_dumps: sorting helpers *)

\* tuple comparison a < b of Python (lexicographic, equal lengths)
RECURSIVE LexLess(_, _)
LexLess(a, b) ==
    IF a = <<>> THEN FALSE
    ELSE IF a[1] # b[1] THEN a[1] < b[1]
    ELSE LexLess(Tail(a), Tail(b))

\* insert x behind every element whose key is not smaller than x's
InsertDesc(sorted_items, x) ==
    LET p == Cardinality({i \in DOMAIN sorted_items :
                            ~LexLess(sorted_items[i].key, x.key)})
    IN SubSeq(sorted_items, 1, p) \o <<x>>
         \o SubSeq(sorted_items, p + 1, Len(sorted_items))

\* sorted(items, key=..., reverse=True): stable, descending; the items are
\* [key, item] records with key a tuple of integers
RECURSIVE SortedDesc(_)
SortedDesc(items) ==
    IF items = <<>> THEN <<>>
    ELSE InsertDesc(SortedDesc(SubSeq(items, 1, Len(items) - 1)), Last(items))

\* insert x behind every element whose key is not greater than x's
InsertAsc(sorted_items, x) ==
    LET p == Cardinality({i \in DOMAIN sorted_items :
                            ~LexLess(x.key, sorted_items[i].key)})
    IN SubSeq(sorted_items, 1, p) \o <<x>>
         \o SubSeq(sorted_items, p + 1, Len(sorted_items))

\* sorted(items, key=...): stable, ascending
RECURSIVE SortedAsc(_)
SortedAsc(items) ==
    IF items = <<>> THEN <<>>
    ELSE InsertAsc(SortedAsc(SubSeq(items, 1, Len(items) - 1)), Last(items))

\* sorted(d.items(), key=itemgetter(0)) of a dict with integer keys, as a dict
SortedByKey(d) ==
    LET s == SortedAsc([i \in DOMAIN d |-> [key |-> <<d[i].k>>, item |-> d[i]]])
    IN [i \in DOMAIN s |-> s[i].item]

\* the namedtuple NumOrigins as the tuple Python compares
AsTuple(num_origins) ==
    <<num_origins.num_source_pkgs, num_origins.num_binary_pkgs, num_origins.num_elfs>>

----------------------------------------------------------------------------
(* generate_dumps: report set-up *)

\* num_unique_feature_type_instances[feature_type]
NumUniqueInstances(inst_to_locations, feature_type) ==
    Cardinality({i \in DOMAIN inst_to_locations :
                    HasKey(inst_to_locations[i].v, feature_type)})

FeatureTypeOriginsAndCounts(inst_to_locations, having) ==
    [i \in DOMAIN having |->
        [k |-> having[i].k,
         v |-> [count |-> NumUniqueInstances(inst_to_locations, having[i].k),
                origins |-> get_num_origins(having[i].v)]]]

\* feature types with fewer source packages than this are listed last
MinSourcePkgs == 5

SortedFeatureTypes(origins_and_counts) ==
    LET by_count == SortedDesc([i \in DOMAIN origins_and_counts |->
                        [key |-> <<origins_and_counts[i].v.count>>,
                         item |-> origins_and_counts[i].k]])
        names == [i \in DOMAIN by_count |-> by_count[i].item]
        Many(ft) == Get(origins_and_counts, ft).origins.num_source_pkgs >= MinSourcePkgs
        Few(ft) == Get(origins_and_counts, ft).origins.num_source_pkgs < MinSourcePkgs
    IN SelectSeq(names, Many) \o SelectSeq(names, Few)

uniq_classes_dict_template ==
    [i \in DOMAIN UNIQ_CLASSES |-> [k |-> UNIQ_CLASSES[i], v |-> <<>>]]

ORIGIN_KEYS == <<"elfs", "binary_pkgs", "source_pkgs">>

----------------------------------------------------------------------------
(* generate_dumps: the classification loop body *)

\* all_elfs_with_inst
\* AllElfsWithInst taking the list of the first feature type only
AllElfsWithInst_FirstType(locations_dict) ==
    Range(locations_dict[1].v)

AllElfsWithInst(locations_dict) ==
    UNION {Range(locations_dict[j].v) : j \in DOMAIN locations_dict}

\* EffectiveOf with the `if not global_uniqueness` branch always taken
EffectiveOf_AlwaysLocal(global_uniqueness, global_value, local_value) ==
    local_value

\* EffectiveOf with the `if not global_uniqueness` branch never taken
EffectiveOf_AlwaysGlobal(global_uniqueness, global_value, local_value) ==
    global_value

\* `if not global_uniqueness: num_origins = local_num_origins; uniq_class =
\* local_uniq_class`: the value the rest of the loop body works with
EffectiveOf(global_uniqueness, global_value, local_value) ==
    IF global_uniqueness THEN global_value ELSE local_value

\* GroupAppend assigning [inst] instead of appending to the list
GroupAppend_Overwrite(grouped, elfs, feature_type, inst) ==
    LET features_dict == IF HasKey(grouped, elfs) THEN Get(grouped, elfs) ELSE <<>>
    IN Put(grouped, elfs, Put(features_dict, feature_type, <<inst>>))

\* GroupAppend that finds an existing group only when it is the latest one
GroupAppend_LatestOnly(grouped, elfs, feature_type, inst) ==
    IF grouped # <<>> /\ Last(grouped).k = elfs
    THEN LET features_dict == Last(grouped).v
             instances == IF HasKey(features_dict, feature_type)
                          THEN Get(features_dict, feature_type) ELSE <<>>
         IN [grouped EXCEPT ![Len(grouped)].v =
                Put(features_dict, feature_type, Append(instances, inst))]
    ELSE Append(grouped, [k |-> elfs,
                          v |-> <<[k |-> feature_type, v |-> <<inst>>]>>])

\* grouped_by_elf_set[tuple(elfs)][feature_type].append(inst)
GroupAppend(grouped, elfs, feature_type, inst) ==
    LET features_dict == IF HasKey(grouped, elfs) THEN Get(grouped, elfs) ELSE <<>>
        instances == IF HasKey(features_dict, feature_type)
                     THEN Get(features_dict, feature_type) ELSE <<>>
    IN Put(grouped, elfs, Put(features_dict, feature_type, Append(instances, inst)))

\* d[feature_type][uniq_class].append(x)
ClassAppend(d, feature_type, uniq_class, x) ==
    Put(d, feature_type,
        Put(Get(d, feature_type), uniq_class,
            Append(Get(Get(d, feature_type), uniq_class), x)))

\* CountInc assigning 1 instead of adding 1
CountInc_Assign(counts, key, feature_type, n) ==
    LET by_type == Get(counts, key)
        counter == IF HasKey(by_type, feature_type) THEN Get(by_type, feature_type) ELSE <<>>
    IN Put(counts, key, Put(by_type, feature_type, Put(counter, n, 1)))

\* aggr_by_num_origins_counts[key][feature_type][n] += 1
CountInc(counts, key, feature_type, n) ==
    LET by_type == Get(counts, key)
        counter == IF HasKey(by_type, feature_type) THEN Get(by_type, feature_type) ELSE <<>>
        old == IF HasKey(counter, n) THEN Get(counter, n) ELSE 0
    IN Put(counts, key, Put(by_type, feature_type, Put(counter, n, old + 1)))

\* PerElfAppend leaving the loop after the first binary
PerElfAppend_FirstOnly(classified, elfs, feature_type, uniq_class, inst) ==
    IF elfs = <<>> THEN classified
    ELSE Put(classified, ElfPathStr(elfs[1]),
             ClassAppend(Get(classified, ElfPathStr(elfs[1])),
                         feature_type, uniq_class, inst))

\* for elf_path in elfs: elf_to_features_classified[str(elf_path)][...].append(inst)
RECURSIVE PerElfAppend(_, _, _, _, _)
PerElfAppend(classified, elfs, feature_type, uniq_class, inst) ==
    IF elfs = <<>> THEN classified
    ELSE PerElfAppend(
            Put(classified, ElfPathStr(elfs[1]),
                ClassAppend(Get(classified, ElfPathStr(elfs[1])),
                            feature_type, uniq_class, inst)),
            Tail(elfs), feature_type, uniq_class, inst)

----------------------------------------------------------------------------
(* generate_dumps: ordering the reports *)

\* {tup[0]: tup[1] for tup in sorted(instances, key=itemgetter(1), reverse=True)}
RECURSIVE DictFrom(_)
DictFrom(pairs) ==
    IF pairs = <<>> THEN <<>>
    ELSE Put(DictFrom(SubSeq(pairs, 1, Len(pairs) - 1)), Last(pairs)[1], Last(pairs)[2])

OrderedInstances(instances) ==
    LET s == SortedDesc([i \in DOMAIN instances |->
                            [key |-> AsTuple(instances[i][2]), item |-> instances[i]]])
    IN DictFrom([i \in DOMAIN s |-> s[i].item])

OrderedAggrFeatures(aggr) ==
    [i \in DOMAIN aggr |->
        [k |-> aggr[i].k,
         v |-> [j \in DOMAIN aggr[i].v |->
                  [k |-> aggr[i].v[j].k, v |-> OrderedInstances(aggr[i].v[j].v)]]]]

\* itertools.chain.from_iterable
RECURSIVE Chain(_)
Chain(seqs) == IF seqs = <<>> THEN <<>> ELSE seqs[1] \o Chain(Tail(seqs))

\* aggr_strings_iter: the (uniq_class, strings_list) items to break down
AggrStringsIter(aggr) ==
    IF HasKey(aggr, "strings") THEN Get(aggr, "strings")
    ELSE Chain([i \in DOMAIN aggr |-> aggr[i].v])

\* for s, _ in strings_list: aggr_strings_by_len[len(s)][uniq_class].append(s)
RECURSIVE ByLenAppendAll(_, _, _)
ByLenAppendAll(by_len, uniq_class, strings_list) ==
    IF strings_list = <<>> THEN by_len
    ELSE LET str == strings_list[1][1]
             strings_dict == IF HasKey(by_len, Len(str)) THEN Get(by_len, Len(str))
                             ELSE uniq_classes_dict_template
         IN ByLenAppendAll(
                Put(by_len, Len(str),
                    Put(strings_dict, uniq_class,
                        Append(Get(strings_dict, uniq_class), str))),
                uniq_class, Tail(strings_list))

RECURSIVE AggrStringsByLen(_, _)
AggrStringsByLen(by_len, items) ==
    IF items = <<>> THEN by_len
    ELSE AggrStringsByLen(ByLenAppendAll(by_len, items[1].k, items[1].v),
                          Tail(items))

OrderedAggrStringsByLen(aggr) ==
    SortedByKey(AggrStringsByLen(<<>>, AggrStringsIter(aggr)))

OrderedAggrStringsByLenCounts(ordered_by_len) ==
    [i \in DOMAIN ordered_by_len |->
        [k |-> ordered_by_len[i].k,
         v |-> [j \in DOMAIN ordered_by_len[i].v |->
                  [k |-> ordered_by_len[i].v[j].k,
                   v |-> Len(ordered_by_len[i].v[j].v)]]]]

\* the histograms, per origin kind and feature type, by ascending count
OrderedAggrByNumOriginsCounts(counts, sorted_types) ==
    [i \in DOMAIN counts |->
        [k |-> counts[i].k,
         v |-> [j \in DOMAIN sorted_types |->
                  [k |-> sorted_types[j],
                   v |-> SortedByKey(IF HasKey(counts[i].v, sorted_types[j])
                                     THEN Get(counts[i].v, sorted_types[j])
                                     ELSE <<>>)]]]]

RECURSIVE SumLens(_)
SumLens(features_dict) ==
    IF features_dict = <<>> THEN 0
    ELSE Len(features_dict[1].v) + SumLens(Tail(features_dict))

\* [{'elfs': list(map(str, elf_paths)), **features_dict} for ... in sorted(...)]
OrderedGroupedByElfSet(grouped) ==
    LET s == SortedDesc([i \in DOMAIN grouped |->
                            [key |-> <<SumLens(grouped[i].v)>>, item |-> grouped[i]]])
    IN [i \in DOMAIN s |->
          [elfs |-> [j \in DOMAIN s[i].item.k |-> ElfPathStr(s[i].item.k[j])],
           features |-> s[i].item.v]]

----------------------------------------------------------------------------
VARIABLES
    pc,                        \* position in generate_dumps
    global_uniqueness,         \* the mode flag
    elf_to_features,           \* the input read so far (dict ElfPath -> dict)
    elfs_having_feature_type,
    inst_to_locations,
    sorted_feature_types,
    grouped_by_elf_set,
    elf_to_features_classified,
    aggr_features,
    aggr_by_num_origins_counts,
    inst_idx,                  \* position of the loop over inst_to_locations
    type_idx,                  \* position of the loop over locations_dict
    num_origins,               \* locals of the classification loop
    uniq_class,
    local_num_origins,
    ordered_aggr_features,     \* classified-aggregated.json
    ordered_aggr_strings_by_len,          \* ...-strings-by-len.json
    ordered_aggr_strings_by_len_counts,   \* ...-strings-by-len-counts.json
    ordered_aggr_by_num_origins_counts,   \* aggregated-by-num-origins-counts.json
    ordered_grouped_by_elf_set \* not-unique-grouped-by-elf-set.json

inputs == <<global_uniqueness, elf_to_features, elfs_having_feature_type,
            inst_to_locations>>
reports == <<grouped_by_elf_set, elf_to_features_classified, aggr_features,
             aggr_by_num_origins_counts>>
locals == <<inst_idx, type_idx, num_origins, uniq_class, local_num_origins>>
dumps == <<ordered_aggr_features, ordered_aggr_strings_by_len,
           ordered_aggr_strings_by_len_counts, ordered_aggr_by_num_origins_counts,
           ordered_grouped_by_elf_set>>

\* the state of the other programs of the pipeline and of the functions
\* specified on their own
VARIABLES
    orig_json,                 \* read_from_elfs_json: the keys of the JSON object
    section_headers,           \* the section headers of the binary read so far
    string_literals,           \* extract_strings_from_elf: its five lists
    defined_functions,
    undefined_functions,
    defined_objects,
    undefined_objects,
    printed,                   \* the strings of the lines written to stdout
    json_from_elfs,            \* main: the feature map returned for the binary
    strings_out,               \* extract_strings_from_blob: the hits read so far
    section_ranges,
    res_strings

symbols == <<defined_functions, undefined_functions, defined_objects,
             undefined_objects>>
structural == <<string_literals, symbols, printed, json_from_elfs>>
brute_force == <<strings_out, section_ranges, res_strings>>
extraction == <<section_headers, structural, brute_force>>

\* the state of the programs that run on the whole corpus: the extraction
\* run, the reconciliation of its two outputs, the report of the strings
\* that are also symbols and the evaluation of the YARA rules
VARIABLES
    from_elfs_json,            \* the files of the extraction run: <<>> while
    from_blobs_json,           \* not written, <<content>> once written
    run_from_elfs,             \* main of the extractor: json_from_elfs
    run_from_blobs,            \* main of the extractor: json_from_blobs
    elf_idx,                   \* main of the extractor: position in elfs
    visited,                   \* the entries the classifier's loop has visited
    json_in_blobs_but_not_elfs,
    missing_json,              \* from-blobs-missing-from-elfs.json
    locations_by_inst,         \* inst_to_locations of the symbol report
    matching_symbols_json,     \* from-elfs-strings-matching-symbols.json
    isolated_json,             \* from-elfs-isolated-strings-matching-symbols.json
    yara_names,                \* the names read from the rule files so far
    yara_elf_name_to_path,
    scanned_elfs,              \* the binaries matched so far
    expected_elfs_predictions

files == <<from_elfs_json, from_blobs_json>>
batch == <<run_from_elfs, run_from_blobs, elf_idx, visited>>
reconciliation == <<json_in_blobs_but_not_elfs, missing_json>>
symbol_report == <<locations_by_inst, matching_symbols_json, isolated_json>>
yara_run == <<yara_names, yara_elf_name_to_path, scanned_elfs,
              expected_elfs_predictions>>
pipeline == <<files, batch, reconciliation, symbol_report, yara_run>>

other_programs == <<orig_json, extraction, pipeline>>

\* the keys have not been read and the extractor is at its entry
ExtractionIdle ==
    /\ orig_json = <<>>
    /\ section_headers = <<>>
    /\ string_literals = <<>>
    /\ defined_functions = <<>>
    /\ undefined_functions = <<>>
    /\ defined_objects = <<>>
    /\ undefined_objects = <<>>
    /\ printed = <<>>
    /\ json_from_elfs = <<>>
    /\ strings_out = <<>>
    /\ section_ranges = <<>>
    /\ res_strings = <<>>

\* the extraction run has written nothing
FilesAbsent ==
    /\ from_elfs_json = <<>>
    /\ from_blobs_json = <<>>

BatchIdle ==
    /\ run_from_elfs = <<>>
    /\ run_from_blobs = <<>>
    /\ elf_idx = 0
    /\ visited = <<>>

ReconciliationIdle ==
    /\ json_in_blobs_but_not_elfs = <<>>
    /\ missing_json = <<>>

SymbolReportIdle ==
    /\ locations_by_inst = <<>>
    /\ matching_symbols_json = <<>>
    /\ isolated_json = <<>>

YaraIdle ==
    /\ yara_names = <<>>
    /\ yara_elf_name_to_path = <<>>
    /\ scanned_elfs = <<>>
    /\ expected_elfs_predictions = <<>>

\* the other programs have not run
OtherProgramsIdle ==
    /\ ExtractionIdle
    /\ FilesAbsent
    /\ BatchIdle
    /\ ReconciliationIdle
    /\ SymbolReportIdle
    /\ YaraIdle

vars == <<pc, inputs, sorted_feature_types, reports, locals, dumps, other_programs>>

\* number of raw list entries read so far
RECURSIVE RawEntries(_)
RawEntries(features_by_elf) ==
    IF features_by_elf = <<>> THEN 0
    ELSE SumLens(features_by_elf[1].v) + RawEntries(Tail(features_by_elf))

\* a name not bound yet
Unbound == NumOrigins(0, 0, 0)

Init ==
    /\ pc = "read"
    /\ global_uniqueness \in BOOLEAN
    /\ elf_to_features = <<>>
    /\ elfs_having_feature_type = <<>>
    /\ inst_to_locations = <<>>
    /\ sorted_feature_types = <<>>
    /\ grouped_by_elf_set = <<>>
    /\ elf_to_features_classified = <<>>
    /\ aggr_features = <<>>
    /\ aggr_by_num_origins_counts = <<>>
    /\ inst_idx = 0
    /\ type_idx = 0
    /\ num_origins = Unbound
    /\ uniq_class = ""
    /\ local_num_origins = Unbound
    /\ ordered_aggr_features = <<>>
    /\ ordered_aggr_strings_by_len = <<>>
    /\ ordered_aggr_strings_by_len_counts = <<>>
    /\ ordered_aggr_by_num_origins_counts = <<>>
    /\ ordered_grouped_by_elf_set = <<>>
    /\ OtherProgramsIdle

\* one iteration of the loop over elf_to_features.items(); the entry of the
\* input file for the next binary is the input
ReadElf ==
    /\ pc = "read"
    /\ Len(elf_to_features) < Len(ExtractedElfs)
    /\ LET elf_path == ExtractedElfs[Len(elf_to_features) + 1]
           budget == MaxEntries - RawEntries(elf_to_features)
       IN \E strs \in BoundedSeq(Values, budget) :
          \E funcs \in BoundedSeq(Values, budget - Len(strs)) :
            LET features_dict == << [k |-> FEATURE_TYPES[1], v |-> strs],
                                    [k |-> FEATURE_TYPES[2], v |-> funcs] >>
            IN /\ elf_to_features' = Append(elf_to_features,
                                            [k |-> elf_path, v |-> features_dict])
               /\ inst_to_locations' = AddFeatures(inst_to_locations, features_dict, elf_path)
               /\ \A n \in DOMAIN inst_to_locations' :
                     inst_to_locations'[n].k = ValueNames[n]
               /\ elfs_having_feature_type' =
                      AddHaving(elfs_having_feature_type, features_dict, elf_path)
    /\ UNCHANGED <<pc, global_uniqueness, sorted_feature_types, reports, locals, dumps,
                   other_programs>>

\* after the input loop: the feature type order and the empty reports
PrepareReports ==
    /\ pc = "read"
    /\ Len(elf_to_features) = Len(ExtractedElfs)
    /\ LET sorted_types == SortedFeatureTypes(
               FeatureTypeOriginsAndCounts(inst_to_locations, elfs_having_feature_type))
       IN /\ sorted_feature_types' = sorted_types
          /\ aggr_features' = [i \in DOMAIN sorted_types |->
                                 [k |-> sorted_types[i], v |-> uniq_classes_dict_template]]
    /\ grouped_by_elf_set' = <<>>
    /\ elf_to_features_classified' =
          [i \in DOMAIN elf_to_features |->
             [k |-> ElfPathStr(elf_to_features[i].k),
              v |-> [j \in DOMAIN elf_to_features[i].v |->
                       [k |-> elf_to_features[i].v[j].k,
                        v |-> uniq_classes_dict_template]]]]
    /\ aggr_by_num_origins_counts' =
          [i \in DOMAIN ORIGIN_KEYS |-> [k |-> ORIGIN_KEYS[i], v |-> <<>>]]
    /\ inst_idx' = 1
    /\ type_idx' = 1
    /\ pc' = "classify"
    /\ UNCHANGED <<inputs, num_origins, uniq_class, local_num_origins, dumps,
                   other_programs>>

\* one iteration of `for feature_type, elfs in locations_dict.items()`,
\* preceded by the global classification when it is the first for this inst
ClassifyInstance ==
    /\ pc = "classify"
    /\ inst_idx <= Len(inst_to_locations)
    /\ LET inst == inst_to_locations[inst_idx].k
           locations_dict == inst_to_locations[inst_idx].v
           feature_type == locations_dict[type_idx].k
           elfs == locations_dict[type_idx].v
           global_num_origins ==
               IF type_idx = 1
               THEN get_num_origins(AsSet(AllElfsWithInst(locations_dict)))
               ELSE num_origins
           global_uniq_class ==
               IF type_idx = 1 THEN get_uniq_class(global_num_origins) ELSE uniq_class
           new_local_num_origins == get_num_origins(elfs)
           local_uniq_class == get_uniq_class(new_local_num_origins)
           new_num_origins ==
               EffectiveOf(global_uniqueness, global_num_origins, new_local_num_origins)
           new_uniq_class ==
               EffectiveOf(global_uniqueness, global_uniq_class, local_uniq_class)
       IN /\ local_num_origins' = new_local_num_origins
          /\ num_origins' = new_num_origins
          /\ uniq_class' = new_uniq_class
          /\ grouped_by_elf_set' =
                IF new_uniq_class = "not_unique"
                THEN GroupAppend(grouped_by_elf_set, elfs, feature_type, inst)
                ELSE grouped_by_elf_set
          /\ aggr_features' = ClassAppend(aggr_features, feature_type, new_uniq_class,
                                          <<inst, new_local_num_origins>>)
          /\ aggr_by_num_origins_counts' =
                CountInc(CountInc(CountInc(aggr_by_num_origins_counts,
                    "elfs", feature_type, new_num_origins.num_elfs),
                    "binary_pkgs", feature_type, new_num_origins.num_binary_pkgs),
                    "source_pkgs", feature_type, new_num_origins.num_source_pkgs)
          /\ elf_to_features_classified' =
                PerElfAppend(elf_to_features_classified, elfs, feature_type,
                             new_uniq_class, inst)
          /\ IF type_idx < Len(locations_dict)
             THEN /\ type_idx' = type_idx + 1
                  /\ inst_idx' = inst_idx
             ELSE /\ type_idx' = 1
                  /\ inst_idx' = inst_idx + 1
    /\ UNCHANGED <<pc, inputs, sorted_feature_types, dumps, other_programs>>

\* after the classification loop: order the reports and write them
WriteDumps ==
    /\ pc = "classify"
    /\ inst_idx > Len(inst_to_locations)
    /\ ordered_aggr_features' = OrderedAggrFeatures(aggr_features)
    /\ ordered_aggr_strings_by_len' = OrderedAggrStringsByLen(aggr_features)
    /\ ordered_aggr_strings_by_len_counts' =
          OrderedAggrStringsByLenCounts(OrderedAggrStringsByLen(aggr_features))
    /\ ordered_aggr_by_num_origins_counts' =
          OrderedAggrByNumOriginsCounts(aggr_by_num_origins_counts, sorted_feature_types)
    /\ ordered_grouped_by_elf_set' = OrderedGroupedByElfSet(grouped_by_elf_set)
    /\ pc' = "done"
    /\ UNCHANGED <<inputs, sorted_feature_types, reports, locals, other_programs>>

Next ==
    \/ ReadElf
    \/ PrepareReports
    \/ ClassifyInstance
    \/ WriteDumps

Spec == Init /\ [][Next]_vars

----------------------------------------------------------------------------
(* The classification primitive on its own: get_uniq_class applied to every *)
(* origin-count triple up to MaxCount                                       *)

InitClassify ==
    /\ pc = "probe"
    /\ global_uniqueness = FALSE
    /\ elf_to_features = <<>>
    /\ elfs_having_feature_type = <<>>
    /\ inst_to_locations = <<>>
    /\ sorted_feature_types = <<>>
    /\ grouped_by_elf_set = <<>>
    /\ elf_to_features_classified = <<>>
    /\ aggr_features = <<>>
    /\ aggr_by_num_origins_counts = <<>>
    /\ inst_idx = 0
    /\ type_idx = 0
    /\ \E s \in 0..MaxCount, b \in 0..MaxCount, e \in 0..MaxCount :
          num_origins = NumOrigins(s, b, e)
    /\ uniq_class = ""
    /\ local_num_origins = Unbound
    /\ ordered_aggr_features = <<>>
    /\ ordered_aggr_strings_by_len = <<>>
    /\ ordered_aggr_strings_by_len_counts = <<>>
    /\ ordered_aggr_by_num_origins_counts = <<>>
    /\ ordered_grouped_by_elf_set = <<>>
    /\ OtherProgramsIdle

ApplyGetUniqClass ==
    /\ pc = "probe"
    /\ uniq_class' = get_uniq_class(num_origins)
    /\ pc' = "probed"
    /\ UNCHANGED <<inputs, sorted_feature_types, reports, inst_idx, type_idx,
                   num_origins, local_num_origins, dumps, other_programs>>

NextClassify == ApplyGetUniqClass

SpecClassify == InitClassify /\ [][NextClassify]_vars
----------------------------------------------------------------------------
(* read_from_elfs_json: composite path strings as sequences of characters.  *)
(* The literal "_amd64.deb" of ELF_PATH_REGEX is one element of a sequence. *)

\* total number of characters in the keys of the JSON object
MaxPathLen == 7

PathChars == {"a", "/", "-", "_amd64.deb", "\n"}

\* what `.` of a regular expression matches (no DOTALL flag)
Dot(c) == c # "\n"

\* the ways ELF_PATH_REGEX = (.*)/(.*_amd64\.deb)-(.*) matches the whole of
\* s: <<i, j>> are the positions of the `/` and of the `-` of the pattern
MatchSplits(s) ==
    {ij \in (DOMAIN s) \X (DOMAIN s) :
        /\ \A n \in DOMAIN s : Dot(s[n])
        /\ s[ij[1]] = "/"
        /\ s[ij[2]] = "-"
        /\ ij[1] + 1 < ij[2]
        /\ s[ij[2] - 1] = "_amd64.deb"}

\* ELF_PATH_REGEX.fullmatch(s) is not None
Fullmatch(s) == MatchSplits(s) # {}

MaxOf(S) == CHOOSE m \in S : \A n \in S : n <= m

\* ElfPath.from_str: the groups of the match; each `.*` is greedy, the
\* leftmost group first
from_str(s) ==
    LET i == MaxOf({ij[1] : ij \in MatchSplits(s)})
        j == MaxOf({ij[2] : ij \in {x \in MatchSplits(s) : x[1] = i}})
    IN ElfPath(SubSeq(s, 1, i - 1), SubSeq(s, i + 1, j - 1), SubSeq(s, j + 1, Len(s)))

\* ElfPath.__str__ that joins the package and the name with `/`
ElfPath_str_SlashName(elf_path) ==
    elf_path.source_pkg \o <<"/">> \o elf_path.binary_pkg \o <<"/">> \o elf_path.name

\* ElfPath.__str__ on sequences of characters
ElfPath_str(elf_path) ==
    elf_path.source_pkg \o <<"/">> \o elf_path.binary_pkg \o <<"-">> \o elf_path.name

\* the feature map of a binary without features
NoFeatures == [i \in DOMAIN FEATURE_TYPES |-> [k |-> FEATURE_TYPES[i], v |-> <<>>]]

RECURSIVE TotalLen(_)
TotalLen(seqs) == IF seqs = <<>> THEN 0 ELSE Len(seqs[1]) + TotalLen(Tail(seqs))

\* the state of the classifier before it has read anything
ClassifierIdle ==
    /\ global_uniqueness = FALSE
    /\ elf_to_features = <<>>
    /\ elfs_having_feature_type = <<>>
    /\ inst_to_locations = <<>>
    /\ sorted_feature_types = <<>>
    /\ grouped_by_elf_set = <<>>
    /\ elf_to_features_classified = <<>>
    /\ aggr_features = <<>>
    /\ aggr_by_num_origins_counts = <<>>
    /\ inst_idx = 0
    /\ type_idx = 0
    /\ num_origins = Unbound
    /\ uniq_class = ""
    /\ local_num_origins = Unbound
    /\ ordered_aggr_features = <<>>
    /\ ordered_aggr_strings_by_len = <<>>
    /\ ordered_aggr_strings_by_len_counts = <<>>
    /\ ordered_aggr_by_num_origins_counts = <<>>
    /\ ordered_grouped_by_elf_set = <<>>

InitElfPath ==
    /\ pc = "load"
    /\ ClassifierIdle
    /\ OtherProgramsIdle

\* one item of the dict comprehension of read_from_elfs_json: the next key
\* of the JSON object is parsed; a key the pattern does not match makes
\* match.groups() raise
LoadKey ==
    /\ pc = "load"
    /\ \E s \in BoundedSeq(PathChars, MaxPathLen - TotalLen(orig_json)) :
          /\ s \notin Range(orig_json)
          /\ orig_json' = Append(orig_json, s)
          /\ IF Fullmatch(s)
             THEN /\ elf_to_features' = Put(elf_to_features, from_str(s), NoFeatures)
                  /\ pc' = pc
             ELSE /\ elf_to_features' = elf_to_features
                  /\ pc' = "raised"
    /\ UNCHANGED <<global_uniqueness, elfs_having_feature_type, inst_to_locations,
                   sorted_feature_types, reports, locals, dumps, extraction,
                   pipeline>>

\* elf_to_features_classified = {str(elf_path): {...} for elf_path, ... in
\* elf_to_features.items()}
RenderKeys ==
    /\ pc = "load"
    /\ elf_to_features_classified' =
          [i \in DOMAIN elf_to_features |->
             [k |-> ElfPath_str(elf_to_features[i].k),
              v |-> [j \in DOMAIN elf_to_features[i].v |->
                       [k |-> elf_to_features[i].v[j].k,
                        v |-> uniq_classes_dict_template]]]]
    /\ pc' = "rendered"
    /\ UNCHANGED <<inputs, sorted_feature_types, grouped_by_elf_set, aggr_features,
                   aggr_by_num_origins_counts, locals, dumps, other_programs>>

NextElfPath ==
    \/ LoadKey
    \/ RenderKeys

SpecElfPath == InitElfPath /\ [][NextElfPath]_vars

----------------------------------------------------------------------------
(* extract-strings-from-elfs.py: bytes are numbers 0..255, a str is a       *)
(* sequence of code points                                                  *)

RODATA_SECTIONS == <<".rodata", ".rodata.str1.1", ".rodata.str1.4",
                     ".rodata.str1.8", ".rodata.cst4", ".rodata.cst8",
                     ".rodata.cst16", "rodata">>

\* U+FFFD REPLACEMENT CHARACTER
ReplacementChar == 65533

\* the characters STRING_SEPARATOR_REGEX matches
IsSeparator(ch) ==
    \/ ch \in 0..8
    \/ ch \in 10..31
    \/ ch = 127
    \/ ch = ReplacementChar

STRING_CUTOFF_LENGTH == 4

\* bytes.split(b'\x00')
RECURSIVE SplitNull(_)
SplitNull(body) ==
    IF \A i \in DOMAIN body : body[i] # 0 THEN <<body>>
    ELSE LET i == CHOOSE m \in DOMAIN body :
                     body[m] = 0 /\ \A n \in 1..(m - 1) : body[n] # 0
         IN <<SubSeq(body, 1, i - 1)>> \o SplitNull(SubSeq(body, i + 1, Len(body)))

\* UTF-8: the number of continuation bytes the lead byte b announces
\* (-1 for a byte that cannot start a sequence)
NumContinuation(b) ==
    IF b < 128 THEN 0
    ELSE IF b \in 194..223 THEN 1
    ELSE IF b \in 224..239 THEN 2
    ELSE IF b \in 240..244 THEN 3
    ELSE -1

\* UTF-8: whether c may be the n-th continuation byte after the lead byte b
IsContinuation(b, n, c) ==
    IF n = 1 /\ b = 224 THEN c \in 160..191
    ELSE IF n = 1 /\ b = 237 THEN c \in 128..159
    ELSE IF n = 1 /\ b = 240 THEN c \in 144..191
    ELSE IF n = 1 /\ b = 244 THEN c \in 128..143
    ELSE c \in 128..191

\* UTF-8: the number of well-formed continuation bytes that follow s[1]
RECURSIVE ContinuationRun(_, _)
ContinuationRun(s, n) ==
    IF n > NumContinuation(s[1]) \/ n + 1 > Len(s) THEN n - 1
    ELSE IF IsContinuation(s[1], n, s[n + 1]) THEN ContinuationRun(s, n + 1)
    ELSE n - 1

\* UTF-8: the code point of the well-formed sequence of n + 1 bytes at s[1]
CodePoint(s, n) ==
    IF n = 0 THEN s[1]
    ELSE IF n = 1 THEN (s[1] - 192) * 64 + (s[2] - 128)
    ELSE IF n = 2 THEN (s[1] - 224) * 4096 + (s[2] - 128) * 64 + (s[3] - 128)
    ELSE (s[1] - 240) * 262144 + (s[2] - 128) * 4096 + (s[3] - 128) * 64 + (s[4] - 128)

\* bytes.decode('utf-8', errors='replace'), keeping with every character
\* whether it stands for an ill-formed sequence: each maximal ill-formed
\* subpart becomes one U+FFFD
RECURSIVE DecodeReplace(_)
DecodeReplace(s) ==
    IF s = <<>> THEN <<>>
    ELSE LET need == NumContinuation(s[1])
             have == IF need = -1 THEN 0 ELSE ContinuationRun(s, 1)
         IN IF need # -1 /\ have = need
            THEN <<[ch |-> CodePoint(s, need), error |-> FALSE]>>
                     \o DecodeReplace(SubSeq(s, need + 2, Len(s)))
            ELSE <<[ch |-> ReplacementChar, error |-> TRUE]>>
                     \o DecodeReplace(SubSeq(s, have + 2, Len(s)))

\* s.decode('utf-8') raises UnicodeDecodeError
DecodeFails(s) ==
    LET replaced == DecodeReplace(s)
    IN \E i \in DOMAIN replaced : replaced[i].error

Chars(decoded) == [i \in DOMAIN decoded |-> decoded[i].ch]

\* str.rfind('\ufffd'), 1-based; 0 stands for -1
RFindRepl(str) ==
    IF \A i \in DOMAIN str : str[i] # ReplacementChar THEN 0
    ELSE CHOOSE i \in DOMAIN str :
            str[i] = ReplacementChar /\ \A n \in (i + 1)..Len(str) : str[n] # ReplacementChar

\* DecodedRun cutting after the first U+FFFD (str.find for str.rfind)
DecodedRun_FirstRepl(s) ==
    LET replaced == Chars(DecodeReplace(s))
        repl_ch_idx == IF \A i \in DOMAIN replaced : replaced[i] # ReplacementChar
                       THEN 0
                       ELSE CHOOSE i \in DOMAIN replaced :
                               /\ replaced[i] = ReplacementChar
                               /\ \A n \in 1..(i - 1) : replaced[n] # ReplacementChar
    IN IF ~DecodeFails(s) THEN [decoded_s |-> replaced, asserted |-> TRUE]
       ELSE [decoded_s |-> SubSeq(replaced, repl_ch_idx + 1, Len(replaced)),
             asserted |-> repl_ch_idx # 0]

\* lines 51-67: the text of one null-delimited run that is split further;
\* asserted is FALSE when `assert repl_ch_idx != -1` fails
DecodedRun(s) ==
    LET replaced == Chars(DecodeReplace(s))
        repl_ch_idx == RFindRepl(replaced)
    IN IF ~DecodeFails(s) THEN [decoded_s |-> replaced, asserted |-> TRUE]
       ELSE [decoded_s |-> SubSeq(replaced, repl_ch_idx + 1, Len(replaced)),
             asserted |-> repl_ch_idx # 0]

\* STRING_SEPARATOR_REGEX.split(decoded_s): the pieces between the maximal
\* runs of separators, an empty piece before a leading and after a trailing
\* run
RECURSIVE RegexSplit(_)
RegexSplit(str) ==
    IF \A i \in DOMAIN str : ~IsSeparator(str[i]) THEN <<str>>
    ELSE LET i == CHOOSE m \in DOMAIN str :
                     IsSeparator(str[m]) /\ \A n \in 1..(m - 1) : ~IsSeparator(str[n])
             j == CHOOSE m \in i..Len(str) :
                     /\ \A n \in i..m : IsSeparator(str[n])
                     /\ (m = Len(str) \/ ~IsSeparator(str[m + 1]))
         IN <<SubSeq(str, 1, i - 1)>> \o RegexSplit(SubSeq(str, j + 1, Len(str)))

\* str.isspace() of a single character
IsSpaceChar(ch) ==
    \/ ch \in 9..13
    \/ ch \in 28..32
    \/ ch \in {133, 160, 5760, 8232, 8233, 8239, 8287, 12288}
    \/ ch \in 8192..8202

\* str.isspace()
isspace(str) == str # <<>> /\ \A i \in DOMAIN str : IsSpaceChar(str[i])

\* str.isascii()
isascii(str) == \A i \in DOMAIN str : str[i] < 128

\* str.isprintable(), for the ASCII strings the extractor applies it to
isprintable(str) == \A i \in DOMAIN str : str[i] \in 32..126

\* translate with an empty translation table
translate_Identity(str) == str

\* str.translate(STRING_TRANSLATION_TABLE): tab becomes space
translate(str) == [i \in DOMAIN str |-> IF str[i] = 9 THEN 32 ELSE str[i]]

\* Accepted with `<=` for `<` in the length test
Accepted_CutoffExclusive(decoded_string) ==
    /\ ~(Len(decoded_string) <= STRING_CUTOFF_LENGTH)
    /\ ~isspace(decoded_string)
    /\ (isascii(decoded_string) => isprintable(translate(decoded_string)))

\* Accepted without the `if decoded_string.isspace(): continue` test
Accepted_NoSpaceTest(decoded_string) ==
    /\ ~(Len(decoded_string) < STRING_CUTOFF_LENGTH)
    /\ (isascii(decoded_string) => isprintable(translate(decoded_string)))

\* lines 71-84: whether a piece of the split is appended to string_literals
Accepted(decoded_string) ==
    /\ ~(Len(decoded_string) < STRING_CUTOFF_LENGTH)
    /\ ~isspace(decoded_string)
    /\ (isascii(decoded_string) => isprintable(translate(decoded_string)))

\* lines 71-82: whether a piece of the split is reported as skipped
Skipped(decoded_string) ==
    /\ ~(Len(decoded_string) < STRING_CUTOFF_LENGTH)
    /\ ~isspace(decoded_string)
    /\ isascii(decoded_string)
    /\ ~isprintable(translate(decoded_string))

\* lines 50-84 over the runs of a body: what is appended to string_literals,
\* what is printed and whether every assertion held
RECURSIVE ScanRuns(_)
ScanRuns(runs) ==
    IF runs = <<>> THEN [strings |-> <<>>, printed |-> <<>>, asserted |-> TRUE]
    ELSE LET run == DecodedRun(runs[1])
             decoded_strings == RegexSplit(run.decoded_s)
             rest == ScanRuns(Tail(runs))
         IN [strings |-> SelectSeq(decoded_strings, Accepted) \o rest.strings,
             printed |-> SelectSeq(decoded_strings, Skipped) \o rest.printed,
             asserted |-> run.asserted /\ rest.asserted]

ScanBody(body) == ScanRuns(SplitNull(body))

\* lines 91-93: the entries the binding test lets through
GlobalEntries(entries) ==
    SelectSeq(entries, LAMBDA entry : entry.bind = "global_symbol")

\* Routed with the branches of the undefined test exchanged
Routed_Inverted(entries, type, undefined) ==
    LET Chosen(entry) == /\ entry.type = type
                         /\ (entry.sh_idx_special # "undefined") = undefined
        chosen == SelectSeq(GlobalEntries(entries), Chosen)
    IN [i \in DOMAIN chosen |-> chosen[i].name[1]]

\* lines 98-107 over the entries of a .dynsym section: the names appended to
\* the list chosen by (type, undefined), in order
Routed(entries, type, undefined) ==
    LET Chosen(entry) == /\ entry.type = type
                         /\ (entry.sh_idx_special = "undefined") = undefined
        chosen == SelectSeq(GlobalEntries(entries), Chosen)
    IN [i \in DOMAIN chosen |-> chosen[i].name[1]]

\* `assert symbol_name is not None` holds for every entry that reaches it;
\* entry.name is <<>> for None and <<str>> for a str
NamesAsserted(entries) ==
    \A i \in DOMAIN entries :
        entries[i].bind = "global_symbol" => entries[i].name # <<>>

\* IsRodataSection testing `'rodata' in header.name`
IsRodataSection_Substring(name) ==
    name \in Range(RODATA_SECTIONS) \cup {".lrodata"}

\* `header.name in RODATA_SECTIONS`
IsRodataSection(name) == name \in Range(RODATA_SECTIONS)

\* RodataTypeCase skipping every section that is not program data
RodataTypeCase_SkipOthers(type) ==
    IF type # "progbits" THEN "continue" ELSE "scan"

\* lines 44-46: what happens to a constant-data section of a given type
RodataTypeCase(type) ==
    IF type = "nobits" THEN "continue"
    ELSE IF type # "progbits" THEN "assert"
    ELSE "scan"

\* the loop body of `for header in section_headers` for one header; an
\* AssertionError ends the extraction of the binary
ExtractHeader(header) ==
    /\ pc = "extract"
    /\ section_headers' = Append(section_headers, header)
    /\ IF IsRodataSection(header.name)
       THEN IF RodataTypeCase(header.type) = "continue"
            THEN UNCHANGED <<pc, string_literals, printed, symbols>>
            ELSE IF RodataTypeCase(header.type) = "assert"
            THEN /\ pc' = "AssertionError"
                 /\ UNCHANGED <<string_literals, printed, symbols>>
            ELSE LET scan == ScanBody(header.body)
                 IN IF scan.asserted
                    THEN /\ string_literals' = string_literals \o scan.strings
                         /\ printed' = printed \o scan.printed
                         /\ UNCHANGED <<pc, symbols>>
                    ELSE /\ pc' = "AssertionError"
                         /\ UNCHANGED <<string_literals, printed, symbols>>
       ELSE IF header.type = "dynsym"
       THEN IF header.name = ".dynsym" /\ NamesAsserted(header.entries)
            THEN /\ undefined_functions' =
                       undefined_functions \o Routed(header.entries, "func", TRUE)
                 /\ defined_functions' =
                       defined_functions \o Routed(header.entries, "func", FALSE)
                 /\ undefined_objects' =
                       undefined_objects \o Routed(header.entries, "object", TRUE)
                 /\ defined_objects' =
                       defined_objects \o Routed(header.entries, "object", FALSE)
                 /\ UNCHANGED <<pc, string_literals, printed>>
            ELSE /\ pc' = "AssertionError"
                 /\ UNCHANGED <<string_literals, printed, symbols>>
       ELSE UNCHANGED <<pc, string_literals, printed, symbols>>
    /\ UNCHANGED <<inputs, sorted_feature_types, reports, locals, dumps, orig_json,
                   pipeline,
                   json_from_elfs, brute_force>>

\* lines 109-115 and main line 172: the feature map of the binary
ReturnFeatures ==
    /\ pc = "extract"
    /\ json_from_elfs' = << [k |-> "strings", v |-> string_literals],
                            [k |-> "defined_functions", v |-> defined_functions],
                            [k |-> "undefined_functions", v |-> undefined_functions],
                            [k |-> "defined_objects", v |-> defined_objects],
                            [k |-> "undefined_objects", v |-> undefined_objects] >>
    /\ pc' = "returned"
    /\ UNCHANGED <<inputs, sorted_feature_types, reports, locals, dumps, orig_json,
                   pipeline,
                   section_headers, string_literals, symbols, printed, brute_force>>

InitExtract ==
    /\ pc = "extract"
    /\ ClassifierIdle
    /\ OtherProgramsIdle

\* a section header as the extractor reads it
SectionHeader(name, type, body, entries) ==
    [name |-> name, type |-> type, body |-> body, entries |-> entries]

----------------------------------------------------------------------------
(* The string scan of one constant-data section on its own *)

\* number of pieces a section body is made of
MaxChunks == 4

\* the pieces: NUL, a control character, tab, "a", "aaaa", U+00E9, U+FFFD
\* (both well-formed) and a byte that no UTF-8 sequence contains
ScanChunks == { <<0>>, <<1>>, <<9>>, <<97>>, <<97, 97, 97, 97>>, <<195, 169>>,
                <<239, 191, 189>>, <<255>> }

Bodies(n) == {Chain(chunks) : chunks \in BoundedSeq(ScanChunks, n)}

ScanSection ==
    /\ section_headers = <<>>
    /\ \E body \in Bodies(MaxChunks) :
          ExtractHeader(SectionHeader(".rodata", "progbits", body, <<>>))

NextScan == ScanSection

SpecScan == InitExtract /\ [][NextScan]_vars

----------------------------------------------------------------------------
(* The loop over the section headers of one binary *)

\* number of section headers of a binary
MaxSections == 2

\* section names: two recognized ones, one that is not recognized and has
\* "rodata" in it, one without
SectionNames == {".rodata", "rodata", ".lrodata", ".text"}

\* Elf.ShType: program data, zero-fill, dynamic symbols, and one other
SectionTypes == {"progbits", "nobits", "dynsym", "note"}

\* section bodies: "aaaa" and "bbbb"
SectionBodies == {<<97, 97, 97, 97>>, <<98, 98, 98, 98>>}

ReadSection ==
    /\ Len(section_headers) < MaxSections
    /\ \E name \in SectionNames, type \in SectionTypes, body \in SectionBodies :
          ExtractHeader(SectionHeader(name, type, body, <<>>))

NextSections ==
    \/ ReadSection
    \/ ReturnFeatures

SpecSections == InitExtract /\ [][NextSections]_vars

----------------------------------------------------------------------------
(* The dynamic symbol table of one binary *)

\* number of entries of the dynamic symbol table
MaxSymbols == 2

\* entry.name: <<>> for None (no name offset, or no string table linked),
\* <<str>> for the string found at the name offset
SymbolNames == {<<>>, <<"">>, <<"f">>, <<"g">>}

\* the entries of a dynamic symbol table: binding, type, special section
\* index ("other" for any value but the undefined sentinel) and name
DynsymEntries ==
    [bind : {"global_symbol", "weak"},
     type : {"func", "object", "notype"},
     sh_idx_special : {"undefined", "other"},
     name : SymbolNames]

ReadDynsym ==
    /\ section_headers = <<>>
    /\ \E entries \in BoundedSeq(DynsymEntries, MaxSymbols) :
          ExtractHeader(SectionHeader(".dynsym", "dynsym", <<>>, entries))

NextSymbols ==
    \/ ReadDynsym
    \/ ReturnFeatures

SpecSymbols == InitExtract /\ [][NextSymbols]_vars

----------------------------------------------------------------------------
(* extract_strings_from_blob: attribution of the hits of `strings -a -t x`  *)

\* number of section headers of the binary
MaxBlobSections == 3

\* the largest offset at which the scanner finds a string
MaxOffset == 5

\* section_header.name is <<>> for None and <<str>> for a str
BlobHeader(name, type, ofs_body, len_body) ==
    [name |-> name, type |-> type, ofs_body |-> ofs_body, len_body |-> len_body]

\* the section headers binaries are made of: two sections with bytes on
\* disk, a zero-fill section whose range lies over the section after it, a
\* section without a name, a section that shares bytes with .text, an
\* empty section after all the others and an empty section whose offset lies
\* inside .text
BlobHeaders ==
    { BlobHeader(<<".text">>, "progbits", 0, 2),
      BlobHeader(<<".bss">>, "nobits", 3, 2),
      BlobHeader(<<".data">>, "progbits", 3, 1),
      BlobHeader(<<>>, "progbits", 4, 1),
      BlobHeader(<<".plt">>, "progbits", 1, 2),
      BlobHeader(<<".empty">>, "progbits", 5, 0),
      BlobHeader(<<".init">>, "progbits", 1, 0) }

\* range(start, stop)
PyRange(start, stop) == [start |-> start, stop |-> stop]

\* `offset in section_range` with the stop included
InRange_Inclusive(offset, section_range) ==
    section_range.start <= offset /\ offset <= section_range.stop

\* `offset in section_range`
InRange(offset, section_range) ==
    section_range.start <= offset /\ offset < section_range.stop

\* the all(...) of lines 136-142
NoOverlap(section_range, ranges) ==
    \A i \in DOMAIN ranges :
        \/ ranges[i][2].stop <= section_range.start
        \/ section_range.stop <= ranges[i][2].start

\* `section_header.name or ''`
NameOrEmpty(name) == IF name = <<>> \/ name = <<"">> THEN "" ELSE name[1]

\* the text the scanner prints at an offset: the bytes of the file there
HexDigit(n) == SubSeq(<<"0", "1", "2", "3", "4", "5", "6", "7", "8", "9",
                        "a", "b", "c", "d", "e", "f">>, n + 1, n + 1)

RECURSIVE Hex(_)
Hex(n) == IF n < 16 THEN HexDigit(n) ELSE Hex(n \div 16) \o HexDigit(n % 16)

TextAt(offset) ==
    IF offset % 2 = 0 THEN <<"s">> \o Hex(offset) ELSE <<" ", "s">> \o Hex(offset)

\* a line of `strings -t x`: the offset in hexadecimal, right justified in 7
\* columns, a space and the text
StringsLine(offset) ==
    [i \in 1..(7 - Len(Hex(offset))) |-> " "] \o Hex(offset) \o <<" ">> \o TextAt(offset)

\* line.lstrip(' ')
RECURSIVE LStrip(_)
LStrip(line) ==
    IF line # <<>> /\ line[1] = " " THEN LStrip(Tail(line)) ELSE line

\* int(hex_offset, 16)
RECURSIVE IntHex(_)
IntHex(digits) ==
    IF digits = <<>> THEN 0
    ELSE IntHex(SubSeq(digits, 1, Len(digits) - 1)) * 16
         + (CHOOSE n \in 0..15 : HexDigit(n) = <<Last(digits)>>)

\* lines 148-150: the offset and the text of a line
ParseLine(line) ==
    LET stripped == LStrip(line)
        sp == CHOOSE i \in DOMAIN stripped :
                 stripped[i] = " " /\ \A n \in 1..(i - 1) : stripped[n] # " "
    IN [offset |-> IntHex(SubSeq(stripped, 1, sp - 1)),
        s |-> SubSeq(stripped, sp + 1, Len(stripped))]

\* lines 151-158: the name of the first range that contains the offset
SectionNameOf(offset, ranges) ==
    IF \A i \in DOMAIN ranges : ~InRange(offset, ranges[i][2]) THEN ""
    ELSE ranges[CHOOSE i \in DOMAIN ranges :
                    /\ InRange(offset, ranges[i][2])
                    /\ \A n \in 1..(i - 1) : ~InRange(offset, ranges[n][2])][1]

InitBlob ==
    /\ pc = "ranges"
    /\ ClassifierIdle
    /\ OtherProgramsIdle

\* one iteration of the loop over section_headers (lines 124-143)
AddSectionRange ==
    /\ pc = "ranges"
    /\ Len(section_headers) < MaxBlobSections
    /\ \E section_header \in BlobHeaders \ Range(section_headers) :
          LET section_range == PyRange(section_header.ofs_body,
                                       section_header.ofs_body + section_header.len_body)
          IN /\ section_headers' = Append(section_headers, section_header)
             /\ IF section_header.type = "nobits"
                THEN UNCHANGED <<pc, section_ranges>>
                ELSE IF NoOverlap(section_range, section_ranges)
                THEN /\ section_ranges' =
                           Append(section_ranges,
                                  <<NameOrEmpty(section_header.name), section_range>>)
                     /\ pc' = pc
                ELSE /\ pc' = "AssertionError"
                     /\ UNCHANGED section_ranges
    /\ UNCHANGED <<inputs, sorted_feature_types, reports, locals, dumps, orig_json,
                   pipeline,
                   structural, strings_out, res_strings>>

\* one iteration of the loop over the lines of the scanner (lines 147-159);
\* the scanner prints its hits by ascending offset
AttributeLine ==
    /\ pc \in {"ranges", "lines"}
    /\ \E offset \in 0..MaxOffset :
          /\ \A i \in DOMAIN strings_out : ParseLine(strings_out[i]).offset < offset
          /\ LET line == StringsLine(offset)
                 hit == ParseLine(line)
                 section_name == SectionNameOf(hit.offset, section_ranges)
                 bucket == IF HasKey(res_strings, section_name)
                           THEN Get(res_strings, section_name) ELSE <<>>
             IN /\ strings_out' = Append(strings_out, line)
                /\ res_strings' = Put(res_strings, section_name, Append(bucket, hit.s))
    /\ pc' = "lines"
    /\ UNCHANGED <<inputs, sorted_feature_types, reports, locals, dumps, orig_json,
                   pipeline,
                   section_headers, structural, section_ranges>>

NextBlob ==
    \/ AddSectionRange
    \/ AttributeLine

SpecBlob == InitBlob /\ [][NextBlob]_vars

----------------------------------------------------------------------------
(* find-from-blobs-missing-from-elfs.py: the reconciliation of the two     *)
(* outputs of the extraction run                                           *)

\* total number of strings in from-blobs.json
MaxBlobStrings == 3

\* the strings the brute-force scan finds
BlobStrings == {"s", "u", "w"}

\* from-elfs.json of the whole corpus: one binary lists "s" as a string, the
\* other as a function
StructuralOutput ==
    << [k |-> ElfPathStr(ExtractedElfs[1]),
        v |-> << [k |-> "strings", v |-> <<"s">>],
                 [k |-> "defined_functions", v |-> <<>>] >>],
       [k |-> ElfPathStr(ExtractedElfs[2]),
        v |-> << [k |-> "strings", v |-> <<>>],
                 [k |-> "defined_functions", v |-> <<"s">>] >>] >>

Keys(d) == {d[i].k : i \in DOMAIN d}

\* a sections dict of from-blobs.json: a section is a key only when the
\* scan found a string in it
SectionsDict(data_strings, other_strings) ==
    (IF data_strings = <<>> THEN <<>> ELSE <<[k |-> ".data", v |-> data_strings]>>)
    \o (IF other_strings = <<>> THEN <<>> ELSE <<[k |-> "", v |-> other_strings]>>)

\* number of strings in a dict of dicts of lists
RECURSIVE NumStrings(_)
NumStrings(d) ==
    IF d = <<>> THEN 0
    ELSE SumLens(d[1].v) + NumStrings(Tail(d))

\* strings_from_elf without the feature types other than `strings`
strings_from_elf_OnlyStrings(features_dict) ==
    Range(Get(features_dict, "strings"))

\* lines 28-30: set(itertools.chain.from_iterable(....values()))
strings_from_elf(features_dict) ==
    UNION {Range(features_dict[i].v) : i \in DOMAIN features_dict}

\* lines 33-40: the loop over the strings of one section
RECURSIVE missing_strings(_, _, _)
missing_strings(strings_from_blob, from_elf, processed_strings) ==
    IF strings_from_blob = <<>> THEN <<>>
    ELSE LET s == strings_from_blob[1]
         IN IF s \in processed_strings
            THEN missing_strings(Tail(strings_from_blob), from_elf, processed_strings)
            ELSE (IF s \notin from_elf THEN <<s>> ELSE <<>>)
                 \o missing_strings(Tail(strings_from_blob), from_elf,
                                    processed_strings \cup {s})

\* lines 31-41: the entry of one binary
from_blobs_but_not_elfs_entry(sections_dict, from_elf) ==
    [i \in DOMAIN sections_dict |->
        [k |-> sections_dict[i].k,
         v |-> missing_strings(sections_dict[i].v, from_elf, {})]]

InitReconcile ==
    /\ pc = "reconcile"
    /\ ClassifierIdle
    /\ ExtractionIdle
    /\ BatchIdle
    /\ SymbolReportIdle
    /\ YaraIdle
    /\ \E present \in SUBSET DOMAIN StructuralOutput :
          from_elfs_json = << SelectSeq(StructuralOutput,
                                LAMBDA e : \E i \in present : StructuralOutput[i] = e) >>
    /\ from_blobs_json = << <<>> >>
    /\ ReconciliationIdle

\* one iteration of the loop over json_from_blobs.items() (lines 27-43);
\* the next entry of from-blobs.json is the input, and the look-up of line
\* 29 raises when from-elfs.json has no entry for the binary
ReconcileEntry ==
    /\ pc = "reconcile"
    /\ \E elf_path \in Keys(StructuralOutput) \ Keys(from_blobs_json[1]) :
       \E data_strings \in BoundedSeq(BlobStrings,
                                      MaxBlobStrings - NumStrings(from_blobs_json[1])) :
       \E other_strings \in BoundedSeq(BlobStrings,
                                       MaxBlobStrings - NumStrings(from_blobs_json[1])
                                           - Len(data_strings)) :
          LET sections_dict == SectionsDict(data_strings, other_strings)
          IN /\ from_blobs_json' =
                   << Append(from_blobs_json[1], [k |-> elf_path, v |-> sections_dict]) >>
             /\ IF HasKey(from_elfs_json[1], elf_path)
                THEN /\ json_in_blobs_but_not_elfs' =
                           Put(json_in_blobs_but_not_elfs, elf_path,
                               from_blobs_but_not_elfs_entry(
                                   sections_dict,
                                   strings_from_elf(Get(from_elfs_json[1], elf_path))))
                     /\ pc' = pc
                ELSE /\ pc' = "KeyError"
                     /\ UNCHANGED json_in_blobs_but_not_elfs
    /\ UNCHANGED <<inputs, sorted_feature_types, reports, locals, dumps, orig_json,
                   extraction, from_elfs_json, batch, missing_json, symbol_report,
                   yara_run>>

\* lines 45-50, after the last entry of from-blobs.json
WriteMissing ==
    /\ pc = "reconcile"
    /\ missing_json' = <<json_in_blobs_but_not_elfs>>
    /\ pc' = "written"
    /\ UNCHANGED <<inputs, sorted_feature_types, reports, locals, dumps, orig_json,
                   extraction, files, batch, json_in_blobs_but_not_elfs,
                   symbol_report, yara_run>>

NextReconcile ==
    \/ ReconcileEntry
    \/ WriteMissing

SpecReconcile == InitReconcile /\ [][NextReconcile]_vars

----------------------------------------------------------------------------
(* main of extract-strings-from-elfs.py: the extraction run over the       *)
(* corpus, followed by the classifier's pass over its output               *)

\* number of binaries under elfs_dir
MaxRunElfs == 3

\* elfs after elfs.sort() (lines 166-167)
RunElfs == SubSeq(ExtractedElfs, 1, MaxRunElfs)

\* rel_elf_path with the directories dropped
rel_elf_path_NameOnly(elf_path) == elf_path.name

\* line 171: str(elf_path.relative_to(elfs_dir))
rel_elf_path(elf_path) == ElfPathStr(elf_path)

\* what extract_strings_from_elf does for a binary: <<>> when it raises,
\* <<feature map>> when it returns
StructuralResults ==
    {<<>>} \cup
    { << << [k |-> FEATURE_TYPES[1], v |-> strs],
            [k |-> FEATURE_TYPES[2], v |-> funcs] >> >> :
        strs \in {<<>>, <<"v">>}, funcs \in {<<>>, <<"v">>} }

\* what extract_strings_from_blob does for a binary: <<>> when it raises,
\* <<sections dict>> when it returns
BruteForceResults ==
    { <<>>, << <<>> >>, << << [k |-> ".data", v |-> <<"v">>] >> >> }

InitBatch ==
    /\ pc = "batch"
    /\ ClassifierIdle
    /\ OtherProgramsIdle

\* one iteration of the loop of main (lines 168-173); an exception of either
\* extraction leaves the loop and main
ExtractNext ==
    /\ pc = "batch"
    /\ elf_idx < Len(RunElfs)
    /\ elf_idx' = elf_idx + 1
    /\ LET elf_path == RunElfs[elf_idx + 1]
       IN \E from_elf \in StructuralResults, from_blob \in BruteForceResults :
             IF from_elf = <<>>
             THEN /\ pc' = "aborted"
                  /\ UNCHANGED <<run_from_elfs, run_from_blobs>>
             ELSE /\ run_from_elfs' = Put(run_from_elfs, rel_elf_path(elf_path), from_elf[1])
                  /\ IF from_blob = <<>>
                     THEN /\ pc' = "aborted"
                          /\ UNCHANGED run_from_blobs
                     ELSE /\ run_from_blobs' =
                                Put(run_from_blobs, rel_elf_path(elf_path), from_blob[1])
                          /\ pc' = pc
    /\ UNCHANGED <<inputs, sorted_feature_types, reports, locals, dumps, orig_json,
                   extraction, files, visited, reconciliation, symbol_report,
                   yara_run>>

\* lines 175-179, after the loop
WriteOutputs ==
    /\ pc = "batch"
    /\ elf_idx = Len(RunElfs)
    /\ from_elfs_json' = <<run_from_elfs>>
    /\ from_blobs_json' = <<run_from_blobs>>
    /\ pc' = "extracted"
    /\ UNCHANGED <<inputs, sorted_feature_types, reports, locals, dumps, orig_json,
                   extraction, batch, reconciliation, symbol_report, yara_run>>

\* ElfPath.from_str of a key of from-elfs.json: <<>> when the pattern does
\* not match, <<ElfPath>> otherwise (the binary whose string the key is)
ParsedKey(elf_path_str) ==
    IF \E elf_path \in Range(ExtractedElfs) : ElfPathStr(elf_path) = elf_path_str
    THEN << CHOOSE elf_path \in Range(ExtractedElfs) :
                ElfPathStr(elf_path) = elf_path_str >>
    ELSE <<>>

\* the dict comprehension of read_from_elfs_json (line 36)
RECURSIVE read_from_elfs_json(_)
read_from_elfs_json(content) ==
    IF content = <<>> THEN <<>>
    ELSE Put(read_from_elfs_json(SubSeq(content, 1, Len(content) - 1)),
             ParsedKey(Last(content).k)[1], Last(content).v)

\* generate_dumps, line 86: the classifier reads from-elfs.json, which
\* exists once the extraction run has written it
ReadFromElfsJson ==
    /\ pc = "extracted"
    /\ from_elfs_json # <<>>
    /\ IF \A i \in DOMAIN from_elfs_json[1] : ParsedKey(from_elfs_json[1][i].k) # <<>>
       THEN /\ elf_to_features' = read_from_elfs_json(from_elfs_json[1])
            /\ pc' = "build"
       ELSE /\ pc' = "AttributeError"
            /\ UNCHANGED elf_to_features
    /\ UNCHANGED <<global_uniqueness, elfs_having_feature_type, inst_to_locations,
                   sorted_feature_types, reports, locals, dumps, other_programs>>

\* one iteration of the loop over elf_to_features.items() (lines 90-100)
VisitElf ==
    /\ pc = "build"
    /\ Len(visited) < Len(elf_to_features)
    /\ LET elf_path == elf_to_features[Len(visited) + 1].k
           features_dict == elf_to_features[Len(visited) + 1].v
       IN /\ visited' = Append(visited, elf_path)
          /\ inst_to_locations' = AddFeatures(inst_to_locations, features_dict, elf_path)
          /\ elfs_having_feature_type' =
                AddHaving(elfs_having_feature_type, features_dict, elf_path)
    /\ UNCHANGED <<pc, global_uniqueness, elf_to_features, sorted_feature_types,
                   reports, locals, dumps, orig_json, extraction, files,
                   run_from_elfs, run_from_blobs, elf_idx, reconciliation,
                   symbol_report, yara_run>>

NextBatch ==
    \/ ExtractNext
    \/ WriteOutputs
    \/ ReadFromElfsJson
    \/ VisitElf

SpecBatch == InitBatch /\ [][NextBatch]_vars

----------------------------------------------------------------------------
(* yara/run-yara-rules.py: the expected rule of a scanned binary           *)

\* number of rule files under yara_dir
MaxRules == 2

\* the replacement '${ARCH}'
ARCH == <<"$", "{", "A", "R", "C", "H", "}">>

\* AMD64_IDENTIFIERS_RE = amd64|x86_64, ARM64_IDENTIFIERS_RE = arm64|aarch64:
\* the alternatives, in order
AMD64_IDENTIFIERS == << <<"a", "m", "d", "6", "4">>, <<"x", "8", "6", "_", "6", "4">> >>
ARM64_IDENTIFIERS == << <<"a", "r", "m", "6", "4">>,
                        <<"a", "a", "r", "c", "h", "6", "4">> >>

IsPrefix(p, str) == Len(p) <= Len(str) /\ SubSeq(str, 1, Len(p)) = p

\* pattern.sub('${ARCH}', str) for a pattern that is an alternation of
\* literals: the leftmost match is replaced, the first alternative that
\* matches taken, and the scan goes on after it
RECURSIVE sub_ARCH(_, _)
sub_ARCH(alternatives, str) ==
    IF str = <<>> THEN <<>>
    ELSE IF \E n \in DOMAIN alternatives : IsPrefix(alternatives[n], str)
    THEN LET n == CHOOSE m \in DOMAIN alternatives :
                     /\ IsPrefix(alternatives[m], str)
                     /\ \A l \in 1..(m - 1) : ~IsPrefix(alternatives[l], str)
         IN ARCH \o sub_ARCH(alternatives,
                             SubSeq(str, Len(alternatives[n]) + 1, Len(str)))
    ELSE <<str[1]>> \o sub_ARCH(alternatives, Tail(str))

\* the literal tail of the second group of ELF_PATH_REGEX: _\$\{ARCH\}\.deb
DebSuffix == <<"_">> \o ARCH \o <<".", "d", "e", "b">>

\* the ways ELF_PATH_REGEX = (.*)/(.*_\$\{ARCH\}\.deb)-(.*) matches the whole
\* of s: <<i, j>> are the positions of the `/` and of the `-` of the pattern
YaraMatchSplits(s) ==
    IF \E n \in DOMAIN s : ~Dot(s[n]) THEN {}
    ELSE LET slashes == {i \in DOMAIN s : s[i] = "/"}
             dashes == {j \in DOMAIN s :
                           /\ s[j] = "-"
                           /\ j > Len(DebSuffix)
                           /\ SubSeq(s, j - Len(DebSuffix), j - 1) = DebSuffix}
         IN {ij \in slashes \X dashes : ij[1] + Len(DebSuffix) < ij[2]}

\* ElfPath.from_str of the rule script: <<>> when the pattern does not
\* match (match.groups() then raises), <<ElfPath>> otherwise
yara_from_str(s) ==
    LET splits == YaraMatchSplits(s)
    IN IF splits = {} THEN <<>>
       ELSE LET i == MaxOf({ij[1] : ij \in splits})
                j == MaxOf({ij[2] : ij \in {x \in splits : x[1] = i}})
            IN << ElfPath(SubSeq(s, 1, i - 1), SubSeq(s, i + 1, j - 1),
                          SubSeq(s, j + 1, Len(s))) >>

\* a piece of an identity string, as the amd64 build and the arm64 build of
\* a binary spell it: a literal is the same in both, an architecture tag is
\* the n-th identifier of each family
Literal(chars) == [amd |-> chars, arm |-> chars]
ArchTag(n) == [amd |-> AMD64_IDENTIFIERS[n], arm |-> ARM64_IDENTIFIERS[n]]

\* source packages, package names and file names of the binaries: a file
\* name without a tag, one with the tag of the build, and two that contain
\* the name of an architecture whatever the build
SourcePieces == << <<Literal(<<"s">>)>>, <<Literal(<<"t">>)>> >>
PkgPieces == << <<Literal(<<"p">>)>>, <<Literal(<<"q">>)>> >>
NamePieces == << <<Literal(<<"l">>), ArchTag(2)>>,
                 <<Literal(<<"n">>)>>,
                 <<Literal(<<"q">>), Literal(ARM64_IDENTIFIERS[2])>>,
                 <<Literal(<<"q">>), Literal(AMD64_IDENTIFIERS[2])>> >>

\* source_pkg/binary_pkg-name, the package file bearing the tag of the build
IdentityPieces(source, pkg, name) ==
    source \o <<Literal(<<"/">>)>> \o pkg
    \o <<Literal(<<"_">>), ArchTag(1), Literal(<<".", "d", "e", "b">>), Literal(<<"-">>)>>
    \o name

\* the binaries, in the order of their paths
Binaries ==
    [n \in 1..(Len(SourcePieces) * Len(PkgPieces) * Len(NamePieces)) |->
        IdentityPieces(
            SourcePieces[((n - 1) \div (Len(PkgPieces) * Len(NamePieces))) + 1],
            PkgPieces[(((n - 1) \div Len(NamePieces)) % Len(PkgPieces)) + 1],
            NamePieces[((n - 1) % Len(NamePieces)) + 1])]

\* meta name of the rule generated from the amd64 build of a binary
RuleName(pieces) == Chain([i \in DOMAIN pieces |-> pieces[i].amd])

\* path of the arm64 build of a binary, relative to elfs_dir
ScannedPath(pieces) == Chain([i \in DOMAIN pieces |-> pieces[i].arm])

\* lines 89-102: the rules a scanned binary is expected to match
Candidates(name_to_path, elf_path_parsed) ==
    IF HasKey(name_to_path, elf_path_parsed.name)
    THEN LET by_source ==
                 SelectSeq(Get(name_to_path, elf_path_parsed.name),
                           LAMBDA yara_elf_path :
                               elf_path_parsed.source_pkg = yara_elf_path.source_pkg)
         IN IF Len(by_source) > 1
            THEN SelectSeq(by_source,
                           LAMBDA yara_elf_path :
                               elf_path_parsed.binary_pkg = yara_elf_path.binary_pkg)
            ELSE by_source
    ELSE <<>>

InitYara ==
    /\ pc = "rules"
    /\ ClassifierIdle
    /\ OtherProgramsIdle

\* one iteration of the loop over the rule files (lines 45-61); the files
\* come in the order of the directory listing
LoadRule ==
    /\ pc = "rules"
    /\ Len(yara_names) < MaxRules
    /\ \E n \in DOMAIN Binaries :
          LET yara_elf_path_str == RuleName(Binaries[n])
              yara_elf_path_arch_indep == sub_ARCH(AMD64_IDENTIFIERS, yara_elf_path_str)
              yara_elf_path == yara_from_str(yara_elf_path_arch_indep)
          IN /\ yara_elf_path_str \notin Range(yara_names)
             /\ yara_names' = Append(yara_names, yara_elf_path_str)
             /\ IF yara_elf_path = <<>>
                THEN /\ pc' = "AttributeError"
                     /\ UNCHANGED yara_elf_name_to_path
                ELSE /\ yara_elf_name_to_path' =
                           Put(yara_elf_name_to_path, yara_elf_path[1].name,
                               Append(IF HasKey(yara_elf_name_to_path,
                                                yara_elf_path[1].name)
                                      THEN Get(yara_elf_name_to_path,
                                               yara_elf_path[1].name)
                                      ELSE <<>>,
                                      yara_elf_path[1]))
                     /\ pc' = pc
    /\ UNCHANGED <<inputs, sorted_feature_types, reports, locals, dumps, orig_json,
                   extraction, files, batch, reconciliation, symbol_report,
                   scanned_elfs, expected_elfs_predictions>>

\* one iteration of the loop over the sorted binaries of elfs_dir, up to the
\* expected prediction (lines 82-107)
MatchElf ==
    /\ pc \in {"rules", "match"}
    /\ Len(scanned_elfs) < Len(Binaries)
    /\ LET rel_path == ScannedPath(Binaries[Len(scanned_elfs) + 1])
           elf_path_arch_indep == sub_ARCH(ARM64_IDENTIFIERS, rel_path)
           elf_path_parsed == yara_from_str(elf_path_arch_indep)
       IN /\ scanned_elfs' = Append(scanned_elfs, rel_path)
          /\ IF elf_path_parsed = <<>>
             THEN /\ pc' = "AttributeError"
                  /\ UNCHANGED expected_elfs_predictions
             ELSE LET candidates == Candidates(yara_elf_name_to_path, elf_path_parsed[1])
                  IN IF Len(candidates) \in {0, 1}
                     THEN /\ expected_elfs_predictions' =
                                Append(expected_elfs_predictions,
                                       [i \in DOMAIN candidates |->
                                           ElfPath_str(candidates[i])])
                          /\ pc' = "match"
                     ELSE /\ pc' = "AssertionError"
                          /\ UNCHANGED expected_elfs_predictions
    /\ UNCHANGED <<inputs, sorted_feature_types, reports, locals, dumps, orig_json,
                   extraction, files, batch, reconciliation, symbol_report,
                   yara_names, yara_elf_name_to_path>>

NextYara ==
    \/ LoadRule
    \/ MatchElf

SpecYara == InitYara /\ [][NextYara]_vars

----------------------------------------------------------------------------
(* find-strings-that-are-also-symbols.py                                   *)

\* number of binaries in from-elfs.json
MaxReportElfs == 2

\* total number of raw list entries in from-elfs.json
MaxReportEntries == 3

\* the feature types of a feature map, in the order the extractor emits
\* them (three of the five)
ReportFeatureTypes == <<"strings", "defined_functions", "undefined_functions">>

\* lines 28-30: one step of the innermost loop
AddLocation(inst_to_locs, inst, elf_path, feature_type) ==
    LET locations_dict == IF HasKey(inst_to_locs, inst)
                          THEN Get(inst_to_locs, inst) ELSE <<>>
        pool == IF HasKey(locations_dict, elf_path)
                THEN Get(locations_dict, elf_path) ELSE <<>>
    IN Put(inst_to_locs, inst,
           Put(locations_dict, elf_path,
               IF feature_type \in Range(pool) THEN pool
               ELSE Append(pool, feature_type)))

\* lines 27-30: the loop over the instances of one list
RECURSIVE AddLocationsOfType(_, _, _, _)
AddLocationsOfType(inst_to_locs, instances, elf_path, feature_type) ==
    IF instances = <<>> THEN inst_to_locs
    ELSE AddLocationsOfType(
            AddLocation(inst_to_locs, instances[1], elf_path, feature_type),
            Tail(instances), elf_path, feature_type)

\* lines 26-30: the loop over the feature types of one binary
RECURSIVE AddLocations(_, _, _)
AddLocations(inst_to_locs, features_dict, elf_path) ==
    IF features_dict = <<>> THEN inst_to_locs
    ELSE AddLocations(
            AddLocationsOfType(inst_to_locs, features_dict[1].v, elf_path,
                               features_dict[1].k),
            Tail(features_dict), elf_path)

\* should_include_locations_dict asking for a binary that lists the value
\* under `strings` and under another feature type
should_include_locations_dict_SameElf(locations_dict) ==
    \E i \in DOMAIN locations_dict :
        /\ Len(locations_dict[i].v) > 1
        /\ "strings" \in Range(locations_dict[i].v)

\* lines 14-16
should_include_locations_dict(locations_dict) ==
    LET feature_types == UNION {Range(locations_dict[i].v) : i \in DOMAIN locations_dict}
    IN Cardinality(feature_types) > 1 /\ "strings" \in feature_types

\* lines 40-42: the binaries of a value grouped by their tuple of feature types
RECURSIVE new_locations_dict(_)
new_locations_dict(locations_dict) ==
    IF locations_dict = <<>> THEN <<>>
    ELSE LET front == new_locations_dict(SubSeq(locations_dict, 1,
                                                Len(locations_dict) - 1))
             feature_types == Last(locations_dict).v
             elf_path == Last(locations_dict).k
         IN Put(front, feature_types,
                Append(IF HasKey(front, feature_types)
                       THEN Get(front, feature_types) ELSE <<>>,
                       elf_path))

\* lines 43-45: the grouped binaries as a tuple of pairs
locations_dict_as_key(locations_dict) ==
    LET grouped == new_locations_dict(locations_dict)
    IN [i \in DOMAIN grouped |-> <<grouped[i].k, grouped[i].v>>]

\* lines 38-46: the values grouped by their locations
RECURSIVE instances_by_locations_dict(_)
instances_by_locations_dict(filtered) ==
    IF filtered = <<>> THEN <<>>
    ELSE LET front == instances_by_locations_dict(SubSeq(filtered, 1,
                                                         Len(filtered) - 1))
             key == locations_dict_as_key(Last(filtered).v)
         IN Put(front, key,
                Append(IF HasKey(front, key) THEN Get(front, key) ELSE <<>>,
                       Last(filtered).k))

\* sum(len(elfs) for _, elfs in t[0])
RECURSIVE NumElfsOfKey(_)
NumElfsOfKey(key) ==
    IF key = <<>> THEN 0 ELSE Len(key[1][2]) + NumElfsOfKey(Tail(key))

\* lines 48-57: the entries of the report, sorted by the number of binaries
instances_by_locations_dict_as_list(by_locations) ==
    LET s == SortedAsc([i \in DOMAIN by_locations |->
                          [key |-> <<NumElfsOfKey(by_locations[i].k)>>,
                           item |-> by_locations[i]]])
    IN [i \in DOMAIN s |->
          [instances |-> s[i].item.v,
           locations |-> [n \in DOMAIN s[i].item.k |->
                            [feature_types |-> s[i].item.k[n][1],
                             elfs |-> s[i].item.k[n][2]]]]]

\* lines 59-63
only_isolated_strings(as_list) ==
    SelectSeq(as_list,
              LAMBDA entry : \E n \in DOMAIN entry.locations :
                                entry.locations[n].feature_types = <<"strings">>)

InitSymbolReport ==
    /\ pc = "collect"
    /\ ClassifierIdle
    /\ ExtractionIdle
    /\ from_elfs_json = << <<>> >>
    /\ from_blobs_json = <<>>
    /\ BatchIdle
    /\ ReconciliationIdle
    /\ SymbolReportIdle
    /\ YaraIdle

\* one iteration of the loop over json_from_elfs.items() (lines 25-30); the
\* next entry of from-elfs.json is the input
CollectElf ==
    /\ pc = "collect"
    /\ Len(from_elfs_json[1]) < MaxReportElfs
    /\ LET elf_path == ElfPathStr(ExtractedElfs[Len(from_elfs_json[1]) + 1])
           budget == MaxReportEntries - NumStrings(from_elfs_json[1])
       IN \E strs \in BoundedSeq(Values, budget) :
          \E defined \in BoundedSeq(Values, budget - Len(strs)) :
          \E undefined \in BoundedSeq(Values, budget - Len(strs) - Len(defined)) :
            LET features_dict == << [k |-> ReportFeatureTypes[1], v |-> strs],
                                    [k |-> ReportFeatureTypes[2], v |-> defined],
                                    [k |-> ReportFeatureTypes[3], v |-> undefined] >>
            IN /\ from_elfs_json' =
                     << Append(from_elfs_json[1], [k |-> elf_path, v |-> features_dict]) >>
               /\ locations_by_inst' =
                     AddLocations(locations_by_inst, features_dict, elf_path)
    /\ UNCHANGED <<pc, inputs, sorted_feature_types, reports, locals, dumps, orig_json,
                   extraction, from_blobs_json, batch, reconciliation,
                   matching_symbols_json, isolated_json, yara_run>>

\* lines 32-69, after the last entry of from-elfs.json
WriteSymbolReports ==
    /\ pc = "collect"
    /\ LET filtered_inst_to_locations ==
               SelectSeq(locations_by_inst,
                         LAMBDA item : should_include_locations_dict(item.v))
           as_list == instances_by_locations_dict_as_list(
                          instances_by_locations_dict(filtered_inst_to_locations))
       IN /\ matching_symbols_json' = <<as_list>>
          /\ isolated_json' = <<only_isolated_strings(as_list)>>
    /\ pc' = "written"
    /\ UNCHANGED <<inputs, sorted_feature_types, reports, locals, dumps, orig_json,
                   extraction, files, batch, reconciliation, locations_by_inst,
                   yara_run>>

NextSymbolReport ==
    \/ CollectElf
    \/ WriteSymbolReports

SpecSymbolReport == InitSymbolReport /\ [][NextSymbolReport]_vars

----------------------------------------------------------------------------
(* Reference notions, read off the input corpus *)

\* the binaries whose raw list for feature_type contains inst
Listing(inst, feature_type) ==
    {elf_to_features[i].k : i \in {j \in DOMAIN elf_to_features :
        /\ HasKey(elf_to_features[j].v, feature_type)
        /\ inst \in Range(Get(elf_to_features[j].v, feature_type))}}

\* the binaries that contain inst under any feature type
ListingAny(inst) ==
    UNION {Listing(inst, FEATURE_TYPES[t]) : t \in DOMAIN FEATURE_TYPES}

\* the feature types under which inst occurs somewhere in the corpus
TypesOf(inst) ==
    {ft \in Range(FEATURE_TYPES) : Listing(inst, ft) # {}}

SourcePkgsOf(S) == {e.source_pkg : e \in S}

BinaryPkgsOf(S) == {e.binary_pkg : e \in S}

\* (#source packages, #binary packages, #binaries) spanned by a set
TripleOf(S) ==
    NumOrigins(Cardinality(SourcePkgsOf(S)), Cardinality(BinaryPkgsOf(S)),
               Cardinality(S))

\* the uniqueness class of a set of binaries as the data model words it
SpanClass(S) ==
    CASE Cardinality(S) = 1 -> "elf_unique"
      [] Cardinality(S) # 1 /\ Cardinality(BinaryPkgsOf(S)) = 1 -> "binary_pkg_unique"
      [] Cardinality(S) # 1 /\ Cardinality(BinaryPkgsOf(S)) # 1
            /\ Cardinality(SourcePkgsOf(S)) = 1 -> "source_pkg_unique"
      [] OTHER -> "not_unique"

\* the occurrence set the mode passes to the classification
UsedSet(inst, feature_type) ==
    IF global_uniqueness THEN ListingAny(inst) ELSE Listing(inst, feature_type)

\* the classification loop has completed at least one iteration
Stepped == pc \in {"classify", "done"} /\ (inst_idx > 1 \/ type_idx > 1)

\* the (inst, feature type) of the latest completed iteration
LastInstIdx == IF type_idx > 1 THEN inst_idx ELSE inst_idx - 1
LastTypeIdx == IF type_idx > 1 THEN type_idx - 1
               ELSE Len(inst_to_locations[inst_idx - 1].v)
LastInst == inst_to_locations[LastInstIdx].k
LastType == inst_to_locations[LastInstIdx].v[LastTypeIdx].k

\* the classes under which (feature_type, inst) is listed in aggr_features
ListedClasses(feature_type, inst) ==
    IF ~HasKey(aggr_features, feature_type) THEN {}
    ELSE {c \in Range(UNIQ_CLASSES) :
            \E p \in DOMAIN Get(Get(aggr_features, feature_type), c) :
                Get(Get(aggr_features, feature_type), c)[p][1] = inst}

\* the (feature type, inst) pairs listed in aggr_features so far
ListedInstances ==
    {<<ft, inst>> \in Range(FEATURE_TYPES) \X Values : ListedClasses(ft, inst) # {}}

----------------------------------------------------------------------------
(* Claims *)

\* C1: classification precedence. For every origin-count triple (s, b, e),
\* get_uniq_class returns the first class whose condition holds in the order
\* e = 1 -> elf_unique, b = 1 -> binary_pkg_unique, s = 1 ->
\* source_pkg_unique, otherwise not_unique; the tests are `= 1`, so a count
\* of 0 or of 2 never passes one.
C1_Precedence ==
    pc = "probed" =>
        LET s == num_origins.num_source_pkgs
            b == num_origins.num_binary_pkgs
            e == num_origins.num_elfs
        IN /\ e = 1 => uniq_class = "elf_unique"
           /\ e # 1 /\ b = 1 => uniq_class = "binary_pkg_unique"
           /\ e # 1 /\ b # 1 /\ s = 1 => uniq_class = "source_pkg_unique"
           /\ e # 1 /\ b # 1 /\ s # 1 => uniq_class = "not_unique"

\* two conditions hold at once (b = 1 and s = 1) and the earlier one wins
C1_Witness ==
    /\ pc = "probed"
    /\ num_origins = NumOrigins(1, 1, 2)
    /\ uniq_class = "binary_pkg_unique"

\* C2: whenever the occurrence set used for the classification of a feature
\* instance (the merged set in global mode, the feature type's own set in
\* local mode) contains binaries of more than one source package, the
\* instance is listed as not_unique, and only as not_unique.
C2_MultiSourceNotUnique ==
    /\ Stepped /\ Cardinality(SourcePkgsOf(UsedSet(LastInst, LastType))) > 1
          => uniq_class = "not_unique"
    /\ pc = "done" =>
          \A x \in ListedInstances :
              Cardinality(SourcePkgsOf(UsedSet(x[2], x[1]))) > 1
                  => ListedClasses(x[1], x[2]) = {"not_unique"}

C2_Witness ==
    /\ pc = "done"
    /\ \E x \in ListedInstances :
        /\ Cardinality(SourcePkgsOf(UsedSet(x[2], x[1]))) > 1
        /\ ListedClasses(x[1], x[2]) = {"not_unique"}

\* C3: dedup invariant. Every occurrence list built from the input holds
\* each binary at most once and holds exactly the binaries whose raw list
\* contains the value, however often and wherever the value is repeated in a
\* raw list; the #binaries count the classification works with is the number
\* of distinct binaries containing the value (under the feature type in local
\* mode, under any feature type in global mode).
C3_Dedup ==
    /\ pc = "classify" /\ ~Stepped =>
       \A i \in DOMAIN inst_to_locations :
         \A j \in DOMAIN inst_to_locations[i].v :
            LET elfs == inst_to_locations[i].v[j].v
            IN /\ Cardinality(Range(elfs)) = Len(elfs)
               /\ Range(elfs) = Listing(inst_to_locations[i].k,
                                        inst_to_locations[i].v[j].k)
    /\ Stepped =>
         /\ num_origins.num_elfs = Cardinality(UsedSet(LastInst, LastType))
         /\ local_num_origins.num_elfs = Cardinality(Listing(LastInst, LastType))

\* a value repeated non-consecutively in one raw list, classified globally
C3_Witness ==
    /\ pc = "done"
    /\ global_uniqueness
    /\ \E i \in DOMAIN elf_to_features : \E j \in DOMAIN elf_to_features[i].v :
         LET raw == elf_to_features[i].v[j].v
         IN \E p, q \in DOMAIN raw :
               /\ q > p + 1
               /\ raw[p] = raw[q]
               /\ Cardinality(ListingAny(raw[p])) > 1

\* C4: mode equivalence. For a value that occurs in exactly one feature
\* type, the origin-count triple and the class that global mode computes are
\* the ones local mode assigns for that feature type: the triple and class of
\* the feature type's own set of binaries.
C4_ModeEquivalence ==
    Stepped /\ Cardinality(TypesOf(LastInst)) = 1 =>
        /\ num_origins = local_num_origins
        /\ num_origins = TripleOf(Listing(LastInst, LastType))
        /\ uniq_class = SpanClass(Listing(LastInst, LastType))
        /\ uniq_class \in ListedClasses(LastType, LastInst)

C4_Witness ==
    /\ Stepped
    /\ global_uniqueness
    /\ Cardinality(TypesOf(LastInst)) = 1
    /\ Cardinality(Listing(LastInst, LastType)) > 1
    /\ \E inst \in Values : Cardinality(TypesOf(inst)) = 2

\* C5: global mode. The class of a value is computed once from the union of
\* its occurrence sets over all feature types, and the value is listed under
\* that one class in every feature type in which it occurs. A value that is
\* a defined_functions entry only in binary A and a strings entry only in
\* binary B, A # B, is never elf_unique and is binary_pkg_unique exactly when
\* A and B are of the same binary package.
C5_GlobalUnion ==
    global_uniqueness =>
        /\ Stepped => uniq_class = SpanClass(ListingAny(LastInst))
        /\ pc = "done" =>
            /\ \A x \in ListedInstances :
                  ListedClasses(x[1], x[2]) = {SpanClass(ListingAny(x[2]))}
            /\ \A inst \in Values : \A A, B \in Range(ExtractedElfs) :
                  /\ A # B
                  /\ Listing(inst, "defined_functions") = {A}
                  /\ Listing(inst, "strings") = {B}
                  => \A x \in ListedInstances : x[2] = inst =>
                        /\ "elf_unique" \notin ListedClasses(x[1], inst)
                        /\ ("binary_pkg_unique" \in ListedClasses(x[1], inst))
                              <=> (A.binary_pkg = B.binary_pkg)

C5_Witness ==
    /\ pc = "done"
    /\ global_uniqueness
    /\ \E inst \in Values : \E A, B \in Range(ExtractedElfs) :
          /\ A # B
          /\ A.binary_pkg = B.binary_pkg
          /\ Listing(inst, "defined_functions") = {A}
          /\ Listing(inst, "strings") = {B}
          /\ ListedClasses("strings", inst) = {"binary_pkg_unique"}
          /\ ListedClasses("defined_functions", inst) = {"binary_pkg_unique"}

\* C6: local mode independence. In local mode the class of a value within a
\* feature type T is a function of the set of binaries that list the value
\* under T and of nothing else in the corpus: it is the span class of that
\* set, whatever the lists of the other feature types contain. (Two corpora
\* that agree on the type-T lists therefore get the same type-T classes.)
C6_LocalIndependence ==
    ~global_uniqueness =>
        /\ Stepped => uniq_class = SpanClass(Listing(LastInst, LastType))
        /\ pc = "done" =>
              \A x \in ListedInstances :
                  ListedClasses(x[1], x[2]) = {SpanClass(Listing(x[2], x[1]))}

\* a value whose two feature types have different footprints and classes
C6_Witness ==
    /\ pc = "done"
    /\ ~global_uniqueness
    /\ \E inst \in Values :
          /\ Cardinality(TypesOf(inst)) = 2
          /\ ListingAny(inst) # Listing(inst, "strings")
          /\ ListedClasses("strings", inst) # ListedClasses("defined_functions", inst)
          /\ SpanClass(ListingAny(inst)) \notin ListedClasses("strings", inst)

----------------------------------------------------------------------------
(* The written reports *)

\* the groups of not-unique-grouped-by-elf-set.json that list inst under
\* feature_type, as (group, position) pairs
GroupPositions(feature_type, inst) ==
    {gp \in (DOMAIN ordered_grouped_by_elf_set) \X (1..MaxEntries) :
        LET features == ordered_grouped_by_elf_set[gp[1]].features
        IN /\ HasKey(features, feature_type)
           /\ gp[2] \in DOMAIN Get(features, feature_type)
           /\ Get(features, feature_type)[gp[2]] = inst}

\* the (feature type, inst) pairs that some group lists
GroupedInstances ==
    {x \in Range(FEATURE_TYPES) \X Values : GroupPositions(x[1], x[2]) # {}}

\* the (feature type, inst) pairs listed as not_unique
NotUniqueInstances ==
    {x \in ListedInstances : "not_unique" \in ListedClasses(x[1], x[2])}

\* the identities of a set of binaries, rendered, in corpus order
RenderedInOrder(S) ==
    LET Member(e) == e \in S
        kept == SelectSeq(ExtractedElfs, Member)
    IN [i \in DOMAIN kept |-> ElfPathStr(kept[i])]

Rendered(S) == {ElfPathStr(e) : e \in S}

\* the (feature type, class, inst, triple) entries of classified-aggregated.json
AggregatedEntries ==
    {y \in Range(FEATURE_TYPES) \X Range(UNIQ_CLASSES) \X Values :
        /\ HasKey(ordered_aggr_features, y[1])
        /\ HasKey(Get(Get(ordered_aggr_features, y[1]), y[2]), y[3])}

RecordedTriple(y) == Get(Get(Get(ordered_aggr_features, y[1]), y[2]), y[3])

\* C7 as stated: every not_unique instance is in exactly one group, whose key
\* is the occurrence set its class was derived from (in global mode the set
\* merged over the feature types); no instance of another class is grouped.
C7_KeyIsClassifiedSet ==
    pc = "done" =>
        /\ \A x \in NotUniqueInstances :
              /\ Cardinality(GroupPositions(x[1], x[2])) = 1
              /\ \A gp \in GroupPositions(x[1], x[2]) :
                    Range(ordered_grouped_by_elf_set[gp[1]].elfs)
                        = Rendered(UsedSet(x[2], x[1]))
        /\ GroupedInstances = NotUniqueInstances

\* C7 (amended): in both modes every instance classified not_unique is in
\* exactly one group of the grouped report; the group's key is the ordered
\* list of the binaries that list the value under the instance's own feature
\* type (in global mode this can be a proper subset of the merged set the
\* class was derived from); no instance of another class is in any group and
\* the grouped instances are exactly the not_unique instances.
C7_Grouping ==
    pc = "done" =>
        /\ \A x \in NotUniqueInstances :
              /\ Cardinality(GroupPositions(x[1], x[2])) = 1
              /\ \A gp \in GroupPositions(x[1], x[2]) :
                    ordered_grouped_by_elf_set[gp[1]].elfs
                        = RenderedInOrder(Listing(x[2], x[1]))
        /\ GroupedInstances = NotUniqueInstances

\* a group that holds two instances, in global mode, keyed by less than the
\* merged set of one of them
C7_Witness ==
    /\ pc = "done"
    /\ global_uniqueness
    /\ \E x \in NotUniqueInstances : \E gp \in GroupPositions(x[1], x[2]) :
          /\ gp[2] = 2
          /\ Listing(x[2], x[1]) # ListingAny(x[2])
          /\ ordered_grouped_by_elf_set[gp[1]].elfs
                = RenderedInOrder(Listing(x[2], x[1]))

\* C8: co-grouping. The group key is a canonical function of the set of
\* binaries: no two groups of the grouped report have keys with the same set
\* of binaries, and two grouped instances, of the same or of different
\* feature types, whose own sets of binaries are equal are in the same group.
C8_CoGrouping ==
    pc = "done" =>
        /\ \A g1, g2 \in DOMAIN ordered_grouped_by_elf_set :
              Range(ordered_grouped_by_elf_set[g1].elfs)
                    = Range(ordered_grouped_by_elf_set[g2].elfs)
                => g1 = g2
        /\ \A x, y \in GroupedInstances :
              Listing(x[2], x[1]) = Listing(y[2], y[1])
                => \A gx \in GroupPositions(x[1], x[2]) :
                   \A gy \in GroupPositions(y[1], y[2]) : gx[1] = gy[1]

\* one group holding an instance of each feature type
C8_Witness ==
    /\ pc = "done"
    /\ \E x, y \in GroupedInstances :
          /\ x[1] # y[1]
          /\ Listing(x[2], x[1]) = Listing(y[2], y[1])
          /\ Cardinality(Listing(x[2], x[1])) >= 2
          /\ \E gx \in GroupPositions(x[1], x[2]) :
             \E gy \in GroupPositions(y[1], y[2]) : gx[1] = gy[1]

\* C9 as stated: in both modes the triple recorded next to an instance is
\* the triple of the occurrence set its class was derived from, and the
\* classification primitive applied to it yields the class of the listing.
C9_TripleOfClassifiedSet ==
    pc = "done" =>
        \A y \in AggregatedEntries :
            /\ RecordedTriple(y) = TripleOf(UsedSet(y[3], y[1]))
            /\ get_uniq_class(RecordedTriple(y)) = y[2]

\* C9 (amended): in both modes the triple recorded next to an instance is
\* the triple of the set of binaries that list the value under the
\* instance's own feature type; the classification primitive applied to it
\* yields the class of the listing in local mode, and in global mode
\* whenever the merged occurrence set of the value equals that set.
C9_RecordedTriple ==
    pc = "done" =>
        \A y \in AggregatedEntries :
            /\ RecordedTriple(y) = TripleOf(Listing(y[3], y[1]))
            /\ UsedSet(y[3], y[1]) = Listing(y[3], y[1])
                  => get_uniq_class(RecordedTriple(y)) = y[2]

\* global mode, a listing whose recorded triple is not the classified one
C9_Witness ==
    /\ pc = "done"
    /\ global_uniqueness
    /\ \E y \in AggregatedEntries :
          /\ UsedSet(y[3], y[1]) # Listing(y[3], y[1])
          /\ RecordedTriple(y) = TripleOf(Listing(y[3], y[1]))
          /\ RecordedTriple(y) # TripleOf(UsedSet(y[3], y[1]))
          /\ y[2] = "not_unique"

\* the (class, position) pairs of a binary's per-class lists that hold inst
PerElfPositions(per_class, inst) ==
    {cp \in (DOMAIN per_class) \X (1..MaxEntries) :
        /\ cp[2] \in DOMAIN per_class[cp[1]].v
        /\ per_class[cp[1]].v[cp[2]] = inst}

\* C10: the per-binary breakdown is a partition. For every binary of the
\* input and every feature type of it, each distinct value of the raw list
\* is in the per-binary report exactly once, under the class under which the
\* (value, feature type) instance is listed in the aggregated report, and no
\* other value is in it.
C10_PerElfPartition ==
    pc = "done" =>
        \A i \in DOMAIN elf_to_features :
            /\ HasKey(elf_to_features_classified, ElfPathStr(elf_to_features[i].k))
            /\ \A j \in DOMAIN elf_to_features[i].v :
                LET feature_type == elf_to_features[i].v[j].k
                    raw == elf_to_features[i].v[j].v
                    per_type == Get(elf_to_features_classified,
                                    ElfPathStr(elf_to_features[i].k))
                IN /\ HasKey(per_type, feature_type)
                   /\ \A inst \in Values :
                        LET at == PerElfPositions(Get(per_type, feature_type), inst)
                        IN IF inst \in Range(raw)
                           THEN /\ Cardinality(at) = 1
                                /\ \A cp \in at :
                                     <<feature_type, UNIQ_CLASSES[cp[1]], inst>>
                                        \in AggregatedEntries
                           ELSE at = {}

\* a binary whose raw list repeats a value and has two distinct values, one
\* of them shared with another binary
C10_Witness ==
    /\ pc = "done"
    /\ \E i \in DOMAIN elf_to_features : \E j \in DOMAIN elf_to_features[i].v :
          LET raw == elf_to_features[i].v[j].v
          IN /\ Cardinality(Range(raw)) = 2
             /\ Len(raw) > 2
             /\ \E inst \in Range(raw) :
                   Cardinality(Listing(inst, elf_to_features[i].v[j].k)) > 1

----------------------------------------------------------------------------
\* the sum of the values of a Counter
RECURSIVE SumCounter(_)
SumCounter(counter) ==
    IF counter = <<>> THEN 0 ELSE counter[1].v + SumCounter(Tail(counter))

\* the written histogram of feature_type by the origin kind `key`
Histogram(key, feature_type) ==
    Get(Get(ordered_aggr_by_num_origins_counts, key), feature_type)

\* the value of bucket n of a histogram (0 when the bucket is absent)
Bucket(counter, n) == IF HasKey(counter, n) THEN Get(counter, n) ELSE 0

\* the distinct values the input lists under feature_type
DistinctValues(feature_type) == {inst \in Values : Listing(inst, feature_type) # {}}

\* the number of instances written under the four classes of feature_type
NumListed(feature_type) ==
    SumLens(Get(ordered_aggr_features, feature_type))

\* C11: aggregate consistency. The written reports cover the feature types
\* the input has values of, and for every one of them the 'count' of the
\* type, the sum of each of the three histograms (by #binaries, by #binary packages, by #source packages) and the number of
\* instances listed over the four uniqueness classes all equal the number of
\* distinct values the input lists under that type, and the bucket
\* '#binaries = 1' equals the number of elf_unique instances of the type.
C11_AggregateConsistency ==
    pc = "done" =>
        /\ Range(sorted_feature_types) =
              {ft \in Range(FEATURE_TYPES) : DistinctValues(ft) # {}}
        /\ \A ft \in Range(sorted_feature_types) :
              LET count == Cardinality(DistinctValues(ft))
              IN /\ NumUniqueInstances(inst_to_locations, ft) = count
                 /\ \A i \in DOMAIN ORIGIN_KEYS :
                       SumCounter(Histogram(ORIGIN_KEYS[i], ft)) = count
                 /\ NumListed(ft) = count
                 /\ Bucket(Histogram("elfs", ft), 1) =
                       Len(Get(Get(ordered_aggr_features, ft), "elf_unique"))

\* the reports are written for a corpus in which two values of one feature
\* type fall into the same bucket of a histogram, one type has an elf_unique
\* value and a value that is not
C11_Witness ==
    /\ pc = "done"
    /\ \E ft \in Range(sorted_feature_types) :
          /\ Cardinality(DistinctValues(ft)) = 2
          /\ \E i \in DOMAIN ORIGIN_KEYS :
                \E n \in 1..MaxEntries : Bucket(Histogram(ORIGIN_KEYS[i], ft), n) = 2
    /\ \E ft \in Range(sorted_feature_types) :
          /\ Len(Get(Get(ordered_aggr_features, ft), "elf_unique")) = 1
          /\ NumListed(ft) = 2

----------------------------------------------------------------------------
\* the keys of the per-binary report, in order
ClassifiedKeys == [i \in DOMAIN elf_to_features_classified |-> elf_to_features_classified[i].k]

\* C12: identity round trip. Every key of the input that ElfPath.from_str
\* accepts is parsed into an identity whose string form is the key itself
\* and whose three fields concatenate, with `/` and `-`, to the key; once
\* the per-binary report is set up its keys are exactly the keys of the
\* input, in the order of the input.
C12_RoundTrip ==
    /\ pc \in {"load", "rendered"} =>
          /\ Len(elf_to_features) = Len(orig_json)
          /\ \A i \in DOMAIN orig_json :
                /\ Fullmatch(orig_json[i])
                /\ ElfPath_str(elf_to_features[i].k) = orig_json[i]
                /\ Len(elf_to_features[i].k.binary_pkg) >= 1
                /\ Last(elf_to_features[i].k.binary_pkg) = "_amd64.deb"
    /\ pc = "rendered" => ClassifiedKeys = orig_json

\* the report keys are rendered for an input of two keys, one of which has
\* more than one `/` and more than one `-` after a package suffix, so that
\* the pattern matches it in more than one way
C12_Witness ==
    /\ pc = "rendered"
    /\ Len(orig_json) = 2
    /\ \E i \in DOMAIN orig_json : Cardinality(MatchSplits(orig_json[i])) > 1

----------------------------------------------------------------------------
(* Reference notions for the string scan *)

\* strict UTF-8: the text of a byte string that is well-formed as a whole
WellFormed(body) == ~DecodeFails(body)
TextOf(body) == Chars(DecodeReplace(body))

\* the delimiters the specification names: the null byte, the control
\* characters 0x01-0x08, 0x0A-0x1F and 0x7F, and U+FFFD
IsDelimiter(ch) ==
    ch = 0 \/ ch \in 1..8 \/ ch \in 10..31 \/ ch = 127 \/ ch = 65533

\* the positions at which a maximal run of non-delimiters starts
RunStarts(text) ==
    {i \in DOMAIN text :
        ~IsDelimiter(text[i]) /\ (i = 1 \/ IsDelimiter(text[i - 1]))}

\* the maximal run of non-delimiters that starts at position i
RunAt(text, i) ==
    LET j == CHOOSE m \in i..Len(text) :
                /\ \A n \in i..m : ~IsDelimiter(text[n])
                /\ (m = Len(text) \/ IsDelimiter(text[m + 1]))
    IN SubSeq(text, i, j)

\* the maximal runs from position `from` on, in order
RECURSIVE RunsFrom(_, _)
RunsFrom(text, from) ==
    IF \A i \in RunStarts(text) : i < from THEN <<>>
    ELSE LET i == CHOOSE m \in RunStarts(text) :
                     m >= from /\ \A n \in RunStarts(text) : n >= from => m <= n
         IN <<RunAt(text, i)>> \o RunsFrom(text, i + 1)

IsWhitespaceOnly(str) ==
    \A i \in DOMAIN str : str[i] \in {9, 32}

\* the sections scanned so far are exactly one
ScannedOne == pc = "extract" /\ Len(section_headers) = 1

\* C13: the scan of a recognized program-data section whose bytes are
\* well-formed UTF-8 yields, in order and with repetitions, exactly the
\* maximal runs of characters between delimiters that have at least 4
\* characters and are not whitespace-only; nothing is reported as skipped.
C13_MaximalRuns ==
    (ScannedOne /\ WellFormed(section_headers[1].body)) =>
        LET runs == RunsFrom(TextOf(section_headers[1].body), 1)
            Wanted(str) == Len(str) >= 4 /\ ~IsWhitespaceOnly(str)
        IN /\ string_literals = SelectSeq(runs, Wanted)
           /\ printed = <<>>

\* a well-formed body with a null byte was scanned and yields two different
\* strings
C13_Witness ==
    /\ ScannedOne
    /\ WellFormed(section_headers[1].body)
    /\ Len(string_literals) = 2
    /\ string_literals[1] # string_literals[2]
    /\ \E i \in DOMAIN section_headers[1].body : section_headers[1].body[i] = 0

\* str occurs in text as a contiguous piece
OccursIn(str, text) ==
    \E i \in 1..(Len(text) - Len(str) + 1) : SubSeq(text, i, i + Len(str) - 1) = str

\* C14: every string the scan emits has at least 4 characters, is not
\* whitespace-only, contains no delimiter (null byte, control character
\* 0x01-0x08, 0x0A-0x1F, 0x7F, U+FFFD), is a piece of the text of the body as
\* it stands (tabs included), and is non-ASCII or consists of tabs and
\* printable ASCII characters; what is reported as skipped is not emitted
\* and the scan of a body never raises.
C14_EmittedStrings ==
    (pc \in {"extract", "AssertionError"} /\ Len(section_headers) = 1) =>
        /\ pc = "extract"
        /\ \A i \in DOMAIN string_literals :
              LET str == string_literals[i]
              IN /\ Len(str) >= 4
                 /\ ~IsWhitespaceOnly(str)
                 /\ \A n \in DOMAIN str : ~IsDelimiter(str[n])
                 /\ OccursIn(str, TextOf(section_headers[1].body))
                 /\ \/ \E n \in DOMAIN str : str[n] >= 128
                    \/ \A n \in DOMAIN str : str[n] = 9 \/ str[n] \in 32..126
        /\ \A i \in DOMAIN printed :
              /\ printed[i] \notin Range(string_literals)
              /\ \A n \in DOMAIN printed[i] : printed[i][n] < 128

\* a body with an ill-formed byte was scanned and yields an ASCII string
\* with a tab in it
C14_Witness ==
    /\ ScannedOne
    /\ \E i \in DOMAIN string_literals :
          /\ \E n \in DOMAIN string_literals[i] : string_literals[i][n] = 9
          /\ \A n \in DOMAIN string_literals[i] : string_literals[i][n] < 128
    /\ \E i \in DOMAIN section_headers[1].body : section_headers[1].body[i] = 255

\* the text of a null-delimited run after its last ill-formed byte sequence
\* (the whole text when the run is well-formed)
TextAfterLastError(run) ==
    LET replaced == DecodeReplace(run)
        errors == {i \in DOMAIN replaced : replaced[i].error}
        last == IF errors = {} THEN 0 ELSE MaxOf(errors)
    IN SubSeq(Chars(replaced), last + 1, Len(replaced))

\* the strings of 4 or more characters, not whitespace-only, that lie after
\* the last ill-formed byte sequence of their run, over the runs of a body
StringsAfterLastErrors(body) ==
    LET Wanted(str) == Len(str) >= 4 /\ ~IsWhitespaceOnly(str)
        runs == SplitNull(body)
    IN Chain([r \in DOMAIN runs |->
                SelectSeq(RunsFrom(TextAfterLastError(runs[r]), 1), Wanted)])

\* a is b with some elements left out
RECURSIVE IsSubSeq(_, _)
IsSubSeq(a, b) ==
    IF a = <<>> THEN TRUE
    ELSE IF b = <<>> THEN FALSE
    ELSE IF a[1] = b[1] THEN IsSubSeq(Tail(a), Tail(b))
    ELSE IsSubSeq(a, Tail(b))

\* C15: decode-failure recovery. The scan of a body with a null-delimited
\* run that is not well-formed UTF-8 never raises (the assertion that a
\* replacement character exists holds), and the strings it emits are, in
\* order, among the strings that lie after the last ill-formed byte sequence
\* of their run: nothing from before or at that sequence is emitted.
C15_DecodeRecovery ==
    (pc \in {"extract", "AssertionError"} /\ Len(section_headers) = 1
        /\ ~WellFormed(section_headers[1].body)) =>
        /\ pc = "extract"
        /\ IsSubSeq(string_literals, StringsAfterLastErrors(section_headers[1].body))

\* a body was scanned in which a string of 4 characters lies before an
\* ill-formed byte and a string is emitted from after it
C15_Witness ==
    /\ ScannedOne
    /\ ~WellFormed(section_headers[1].body)
    /\ string_literals # <<>>
    /\ \E k \in DOMAIN section_headers[1].body :
          /\ section_headers[1].body[k] = 255
          /\ \A n \in 1..(k - 1) : section_headers[1].body[n] = 97
          /\ k > 4

----------------------------------------------------------------------------
(* Reference notions for the loop over the sections *)

\* the names of the fixed recognized constant-data set
RecognizedNames ==
    {".rodata", ".rodata.str1.1", ".rodata.str1.4", ".rodata.str1.8",
     ".rodata.cst4", ".rodata.cst8", ".rodata.cst16", "rodata"}

\* the section names of the model that have "rodata" in them
NamesWithRodata == {".rodata", "rodata", ".lrodata"}

\* an unrecognized name that has "rodata" in it
IsUnusual(header) ==
    header.name \in NamesWithRodata /\ header.name \notin RecognizedNames

\* the text of a body of printable ASCII characters
AsciiText(body) == body

\* the strings of the recognized program-data sections among headers, in order
RECURSIVE RecognizedStrings(_)
RecognizedStrings(headers) ==
    IF headers = <<>> THEN <<>>
    ELSE (IF headers[1].name \in RecognizedNames /\ headers[1].type = "progbits"
          THEN <<AsciiText(headers[1].body)>> ELSE <<>>)
         \o RecognizedStrings(Tail(headers))

\* C16 as stated: only sections with a recognized name contribute strings,
\* and every section with an unrecognized name that has "rodata" in it is
\* flagged: the output of the extractor mentions it.
C16_UnusualFlagged ==
    pc \in {"extract", "returned"} =>
        /\ string_literals = RecognizedStrings(section_headers)
        /\ \A i \in DOMAIN section_headers :
              IsUnusual(section_headers[i]) => printed # <<>>

\* C16 (amended): only sections with a recognized name contribute strings;
\* a section with an unrecognized name that has "rodata" in it is skipped
\* like any other unrecognized section, without a diagnostic: its bytes
\* yield no string and the extractor prints nothing about it.
C16_UnusualSkipped ==
    pc \in {"extract", "returned"} =>
        /\ string_literals = RecognizedStrings(section_headers)
        /\ printed = <<>>
        /\ pc = "returned" => Get(json_from_elfs, "strings") =
                                 RecognizedStrings(section_headers)

\* the feature map is returned for a binary with a program-data section
\* named .lrodata and a recognized program-data section
C16_Witness ==
    /\ pc = "returned"
    /\ \E i \in DOMAIN section_headers :
          IsUnusual(section_headers[i]) /\ section_headers[i].type = "progbits"
    /\ string_literals # <<>>

\* a recognized name with a type that is neither program data nor zero-fill
IsUnexpected(header) ==
    header.name \in RecognizedNames /\ header.type \notin {"progbits", "nobits"}

\* a dynamic symbol section under another name
IsMisnamed(header) ==
    header.name \notin RecognizedNames /\ header.type = "dynsym"
        /\ header.name # ".dynsym"

\* C17: for a section with a recognized name, zero-fill is skipped and
\* contributes nothing, program data is scanned, and any other type ends the
\* extraction of the binary with an assertion failure: the headers after it
\* are not read and no feature map is returned.
C17_RecognizedTypes ==
    /\ pc \in {"extract", "returned"} =>
          /\ \A i \in DOMAIN section_headers : ~IsUnexpected(section_headers[i])
          /\ string_literals = RecognizedStrings(section_headers)
    /\ pc = "AssertionError" =>
          /\ IsUnexpected(Last(section_headers)) \/ IsMisnamed(Last(section_headers))
          /\ \A i \in 1..(Len(section_headers) - 1) :
                ~IsUnexpected(section_headers[i])
    /\ (\E i \in DOMAIN section_headers : IsUnexpected(section_headers[i])) =>
          /\ pc = "AssertionError"
          /\ json_from_elfs = <<>>
    /\ pc # "returned" => json_from_elfs = <<>>

\* the extraction ended at a recognized section of another type, after a
\* recognized zero-fill section that was skipped
C17_Witness ==
    /\ pc = "AssertionError"
    /\ Len(section_headers) = 2
    /\ section_headers[1].name \in RecognizedNames
    /\ section_headers[1].type = "nobits"
    /\ IsUnexpected(section_headers[2])
    /\ string_literals = <<>>

----------------------------------------------------------------------------
(* Reference notions for the dynamic symbol table *)

\* the entries of the dynamic symbol table that was read
EntriesRead == section_headers[1].entries

\* the list an entry belongs to ("" for none)
ListOf(entry) ==
    IF entry.bind # "global_symbol" THEN ""
    ELSE CASE entry.type = "func" /\ entry.sh_idx_special = "undefined" -> "undefined_functions"
           [] entry.type = "func" /\ entry.sh_idx_special # "undefined" -> "defined_functions"
           [] entry.type = "object" /\ entry.sh_idx_special = "undefined" -> "undefined_objects"
           [] entry.type = "object" /\ entry.sh_idx_special # "undefined" -> "defined_objects"
           [] OTHER -> ""

\* the names of the entries that belong to a list, in table order
RECURSIVE NamesFor(_, _)
NamesFor(entries, list) ==
    IF entries = <<>> THEN <<>>
    ELSE (IF ListOf(entries[1]) = list THEN <<entries[1].name[1]>> ELSE <<>>)
         \o NamesFor(Tail(entries), list)

\* the dynamic symbol table was read without an assertion failure
SymbolsRead == pc \in {"extract", "returned"} /\ Len(section_headers) = 1

\* C18: symbol routing. When the dynamic symbol table has been read, each of
\* the four symbol lists holds, in table order, the names of exactly the
\* global entries of its (type, undefined) combination, so every global
\* function or object entry is in exactly one list and every other entry in
\* none; the returned feature map carries the lists under their names.
C18_SymbolRouting ==
    SymbolsRead =>
        /\ undefined_functions = NamesFor(EntriesRead, "undefined_functions")
        /\ defined_functions = NamesFor(EntriesRead, "defined_functions")
        /\ undefined_objects = NamesFor(EntriesRead, "undefined_objects")
        /\ defined_objects = NamesFor(EntriesRead, "defined_objects")
        /\ string_literals = <<>>
        /\ pc = "returned" =>
              /\ Get(json_from_elfs, "undefined_functions") = undefined_functions
              /\ Get(json_from_elfs, "defined_functions") = defined_functions
              /\ Get(json_from_elfs, "undefined_objects") = undefined_objects
              /\ Get(json_from_elfs, "defined_objects") = defined_objects

\* the feature map is returned for a table with an undefined global object
\* and a weak function: one list has one name, the others are empty
C18_Witness ==
    /\ pc = "returned"
    /\ Len(section_headers) = 1
    /\ Len(undefined_objects) = 1
    /\ Len(EntriesRead) = 2
    /\ \E i \in DOMAIN EntriesRead :
          EntriesRead[i].bind = "weak" /\ EntriesRead[i].type = "func"
    /\ defined_functions = <<>> /\ undefined_functions = <<>> /\ defined_objects = <<>>

\* C19 as stated: no symbol list ever contains an empty name, and a global
\* entry with no resolvable name ends the extraction with an assertion
\* failure.
C19_NoEmptyName ==
    /\ \A name \in Range(defined_functions) \cup Range(undefined_functions)
                    \cup Range(defined_objects) \cup Range(undefined_objects) :
          name # ""
    /\ (Len(section_headers) = 1 /\ \E i \in DOMAIN EntriesRead :
            EntriesRead[i].bind = "global_symbol" /\ EntriesRead[i].name = <<>>)
          => pc = "AssertionError"

----------------------------------------------------------------------------
(* Reference notions for the attribution of hits *)

\* the offset of the hit a line of the scanner stands for
HitOffset(line) == CHOOSE offset \in 0..MaxOffset : StringsLine(offset) = line

\* the sections with bytes on disk whose byte range contains the offset
Containing(offset) ==
    {i \in DOMAIN section_headers :
        /\ section_headers[i].type # "nobits"
        /\ section_headers[i].ofs_body <= offset
        /\ offset < section_headers[i].ofs_body + section_headers[i].len_body}

\* the name of the bucket the claim gives a hit
BucketOf(offset) ==
    IF Containing(offset) = {} THEN ""
    ELSE LET name == section_headers[CHOOSE i \in Containing(offset) : TRUE].name
         IN IF name = <<>> THEN "" ELSE name[1]

\* the texts of the hits read so far that belong to a bucket, in scan order
RECURSIVE HitsOf(_, _)
HitsOf(lines, bucket) ==
    IF lines = <<>> THEN <<>>
    ELSE (IF BucketOf(HitOffset(lines[1])) = bucket
          THEN <<TextAt(HitOffset(lines[1]))>> ELSE <<>>)
         \o HitsOf(Tail(lines), bucket)

\* C20: brute-force attribution. Every hit read so far is in exactly one
\* bucket, in scan order: at most one section with bytes on disk contains
\* its offset, the bucket bears the name of that section, or the empty name
\* when there is none, and a zero-fill section receives no hit.
C20_Attribution ==
    pc = "lines" =>
        /\ \A i \in DOMAIN strings_out :
              Cardinality(Containing(HitOffset(strings_out[i]))) <= 1
        /\ {res_strings[i].k : i \in DOMAIN res_strings} =
              {BucketOf(HitOffset(strings_out[i])) : i \in DOMAIN strings_out}
        /\ \A i \in DOMAIN res_strings :
              res_strings[i].v = HitsOf(strings_out, res_strings[i].k)
        /\ SumLens(res_strings) = Len(strings_out)
        /\ \A i \in DOMAIN section_headers :
              section_headers[i].type = "nobits" =>
                 ~HasKey(res_strings, section_headers[i].name[1])

\* hits were attributed for a binary with a zero-fill section whose range
\* contains a hit: one bucket holds two hits, one hit lies in no section
C20_Witness ==
    /\ pc = "lines"
    /\ \E i \in DOMAIN res_strings : Len(res_strings[i].v) = 2 /\ res_strings[i].k # ""
    /\ \E i \in DOMAIN strings_out : Containing(HitOffset(strings_out[i])) = {}
    /\ \E i \in DOMAIN section_headers, j \in DOMAIN strings_out :
          /\ section_headers[i].type = "nobits"
          /\ section_headers[i].ofs_body <= HitOffset(strings_out[j])
          /\ HitOffset(strings_out[j]) <
                section_headers[i].ofs_body + section_headers[i].len_body

----------------------------------------------------------------------------
(* C27: every triple that get_num_origins computes for a non-empty         *)
(* occurrence set of the corpus (the union over the feature types in       *)
(* global mode, the list of one feature type always) is ordered:           *)
(* 1 <= num_source_pkgs <= num_binary_pkgs <= num_elfs.                     *)

OriginsOrdered(triple) ==
    /\ 1 <= triple.num_source_pkgs
    /\ triple.num_source_pkgs <= triple.num_binary_pkgs
    /\ triple.num_binary_pkgs <= triple.num_elfs

C27_OriginOrdering ==
    Stepped => /\ OriginsOrdered(num_origins)
               /\ OriginsOrdered(local_num_origins)

\* a value whose union spans one source package, two binary packages and
\* three binaries while one of its lists holds a single binary
C27_Witness ==
    /\ Stepped
    /\ global_uniqueness
    /\ num_origins = NumOrigins(1, 2, 3)
    /\ local_num_origins = NumOrigins(1, 1, 1)

----------------------------------------------------------------------------
(* C28: with elf_unique < binary_pkg_unique < source_pkg_unique <          *)
(* not_unique, the class assigned to a (value, feature type) in global     *)
(* mode is equal to or broader than the class local mode assigns to it,    *)
(* which is the class of the list of that feature type alone.              *)

ClassRank(class) == CHOOSE n \in DOMAIN UNIQ_CLASSES : UNIQ_CLASSES[n] = class

\* the class the global branch computes for the value of the latest iteration
GlobalClassOfLast ==
    get_uniq_class(get_num_origins(
        AsSet(AllElfsWithInst(inst_to_locations[LastInstIdx].v))))

C28_GlobalNotNarrower ==
    Stepped =>
        LET local_class == get_uniq_class(local_num_origins)
        IN IF global_uniqueness
           THEN ClassRank(uniq_class) >= ClassRank(local_class)
           ELSE /\ uniq_class = local_class
                /\ ClassRank(GlobalClassOfLast) >= ClassRank(uniq_class)

\* a value that is not unique over the corpus while one of its lists holds
\* a single binary
C28_Witness ==
    /\ Stepped
    /\ global_uniqueness
    /\ uniq_class = "not_unique"
    /\ get_uniq_class(local_num_origins) = "elf_unique"

----------------------------------------------------------------------------
(* Reference notions for the candidates of the string scan *)

\* the text of a null-delimited run that the split is applied to: the whole
\* text of a well-formed run, the text after the last U+FFFD otherwise
SplitText(run) ==
    LET text == TextOf(run)
        marks == {i \in DOMAIN text : text[i] = 65533}
    IN IF WellFormed(run) \/ marks = {} THEN text
       ELSE SubSeq(text, MaxOf(marks) + 1, Len(text))

\* the non-empty candidates of a body, in order
CandidatesOf(body) ==
    LET runs == SplitNull(body)
    IN Chain([r \in DOMAIN runs |-> RunsFrom(SplitText(runs[r]), 1)])

IsAsciiText(str) == \A i \in DOMAIN str : str[i] \in 0..127

\* C29: the rejection of non-printable ASCII strings never happens. Every
\* ASCII candidate that the split on the delimiters produces consists of
\* tabs and the characters 0x20-0x7E only (every ASCII character that is
\* not a delimiter is printable once tab is mapped to space); nothing is
\* ever reported as skipped, and the ASCII strings emitted are, in order, exactly the ASCII
\* candidates of 4 or more characters that are not whitespace-only.
C29_NoPrintabilityRejection ==
    (pc \in {"extract", "AssertionError"} /\ Len(section_headers) = 1) =>
        LET candidates == CandidatesOf(section_headers[1].body)
            Kept(str) == IsAsciiText(str) /\ Len(str) >= 4 /\ ~IsWhitespaceOnly(str)
        IN /\ printed = <<>>
           /\ \A ch \in 0..127 :
                 ~IsSeparator(ch) => isprintable(translate(<<ch>>))
           /\ \A i \in DOMAIN candidates :
                 IsAsciiText(candidates[i]) =>
                    \A n \in DOMAIN candidates[i] :
                       candidates[i][n] = 9 \/ candidates[i][n] \in 32..126
           /\ SelectSeq(string_literals, IsAsciiText) = SelectSeq(candidates, Kept)

\* a well-formed body with a control character was scanned and an ASCII
\* string that ends with a tab is emitted
C29_Witness ==
    /\ ScannedOne
    /\ WellFormed(section_headers[1].body)
    /\ \E i \in DOMAIN section_headers[1].body : section_headers[1].body[i] = 1
    /\ \E i \in DOMAIN string_literals :
          /\ IsAsciiText(string_literals[i])
          /\ Last(string_literals[i]) = 9

----------------------------------------------------------------------------
(* Reference notions for the overlap check *)

\* the bytes of the file that a section with bytes on disk holds
BytesOf(header) ==
    IF header.type = "nobits" THEN {}
    ELSE {b \in 0..(MaxOffset + 1) :
             header.ofs_body <= b /\ b < header.ofs_body + header.len_body}

\* two of the sections read so far share a byte of the file
SharedByte ==
    \E i, j \in DOMAIN section_headers :
        i # j /\ BytesOf(section_headers[i]) \cap BytesOf(section_headers[j]) # {}

\* C26: the brute-force path fails with the overlapping-section assertion
\* if and only if two of the sections read so far, both with bytes on disk,
\* share at least one byte of the file; a section of length zero never makes
\* it fail.
C26_OverlapIffSharedByte ==
    pc \in {"ranges", "lines", "AssertionError"} =>
        ((pc = "AssertionError") <=> SharedByte)

----------------------------------------------------------------------------
(* Reference notions for the reconciliation *)

\* the values that from-elfs.json lists for a binary under any feature type
StructuralUnion(elf_path) ==
    LET features_dict == Get(from_elfs_json[1], elf_path)
    IN {str \in BlobStrings :
           \E i \in DOMAIN features_dict :
              \E n \in DOMAIN features_dict[i].v : features_dict[i].v[n] = str}

\* the strings of a list that are not in `known`, each at its first
\* occurrence
RECURSIVE FirstOccurrences(_, _)
FirstOccurrences(list, known) ==
    IF list = <<>> THEN <<>>
    ELSE LET front == SubSeq(list, 1, Len(list) - 1)
         IN FirstOccurrences(front, known)
            \o (IF Last(list) \in known \/ Last(list) \in Range(front)
                THEN <<>> ELSE <<Last(list)>>)

\* all the strings of the lists of a dict, in order
AllStrings(d) == Chain([i \in DOMAIN d |-> d[i].v])

\* the binaries that have an entry in the report
Reconciled == Keys(json_in_blobs_but_not_elfs)

\* C21, as stated: for every binary the strings reported are the distinct
\* strings of the brute-force scan of the binary that no feature type of its
\* structural output lists, each reported once for the binary, in the order
\* of their first occurrence.
C21_ReportedOncePerBinary ==
    \A elf_path \in Reconciled :
        AllStrings(Get(json_in_blobs_but_not_elfs, elf_path)) =
            FirstOccurrences(AllStrings(Get(from_blobs_json[1], elf_path)),
                             StructuralUnion(elf_path))

\* C21, amended: the report of a binary has the sections of its brute-force
\* output, and the list of a section holds the distinct strings of that
\* section that no feature type of the structural output of the binary
\* lists, each once per section, in the order of their first occurrence in
\* the section; a string the structural output lists is never reported.
C21_ReportedOncePerSection ==
    \A elf_path \in Reconciled :
        LET scanned == Get(from_blobs_json[1], elf_path)
            reported == Get(json_in_blobs_but_not_elfs, elf_path)
        IN /\ DOMAIN reported = DOMAIN scanned
           /\ \A i \in DOMAIN reported :
                 /\ reported[i].k = scanned[i].k
                 /\ reported[i].v =
                       FirstOccurrences(scanned[i].v, StructuralUnion(elf_path))
           /\ Range(AllStrings(reported)) =
                 Range(AllStrings(scanned)) \ StructuralUnion(elf_path)

\* the report was written for a binary that lists "s" as a function only: a
\* section holds "s" and a string twice, and the string is reported once
C21_Witness ==
    /\ pc = "written"
    /\ \E elf_path \in Keys(missing_json[1]) :
          /\ "s" \notin Range(Get(Get(from_elfs_json[1], elf_path), "strings"))
          /\ \E i \in DOMAIN Get(from_blobs_json[1], elf_path) :
                /\ Len(Get(from_blobs_json[1], elf_path)[i].v) = 3
                /\ "s" \in Range(Get(from_blobs_json[1], elf_path)[i].v)
                /\ Len(Get(missing_json[1], elf_path)[i].v) = 1

\* C22: when the structural output and the brute-force output do not have
\* the same set of binaries, no report is written.
C22_SameBinariesOrNoReport ==
    Keys(from_elfs_json[1]) # Keys(from_blobs_json[1]) => missing_json = <<>>

----------------------------------------------------------------------------
(* Reference notions for the extraction run *)

\* the extraction run has ended with an exception
RunAborted == pc = "aborted"

\* the binaries the run has processed by both paths
Processed == IF RunAborted THEN elf_idx - 1 ELSE elf_idx

\* C23: failure isolation. A run in which the extraction of a binary failed
\* still processes every binary of the corpus and writes its two outputs: it
\* never ends with binaries left unprocessed or without outputs.
C23_FailureIsolated ==
    RunAborted => /\ elf_idx = Len(RunElfs)
                  /\ from_elfs_json # <<>>
                  /\ from_blobs_json # <<>>

\* the keys of a dict are different from each other
DistinctKeys(d) == \A i, j \in DOMAIN d : d[i].k = d[j].k => i = j

\* the strings that identify the binaries of the corpus
CorpusKeys == {ElfPathStr(RunElfs[i]) : i \in DOMAIN RunElfs}

\* C24: the two outputs are written only after the loop has processed every
\* binary by both paths; each output then has exactly one entry for every
\* binary of the corpus, so both have the same binaries; and the
\* classifier's loop over the structural output, which starts only when the
\* output is written, visits the binaries of the corpus in order, each once.
C24_Barrier ==
    /\ (from_elfs_json # <<>> \/ from_blobs_json # <<>>) =>
          /\ from_elfs_json # <<>> /\ from_blobs_json # <<>>
          /\ Processed = Len(RunElfs)
          /\ DistinctKeys(from_elfs_json[1]) /\ DistinctKeys(from_blobs_json[1])
          /\ Keys(from_elfs_json[1]) = CorpusKeys
          /\ Keys(from_blobs_json[1]) = CorpusKeys
    /\ pc \in {"build", "AttributeError"} =>
          /\ pc = "build"
          /\ from_elfs_json # <<>>
          /\ Len(elf_to_features) = Len(RunElfs)
          /\ visited = SubSeq(RunElfs, 1, Len(visited))

\* the classifier has visited every binary of a corpus in which two binaries
\* have the same file name, and found a value in it
C24_Witness ==
    /\ pc = "build"
    /\ visited = RunElfs
    /\ \E i, j \in DOMAIN visited : i # j /\ visited[i].name = visited[j].name
    /\ inst_to_locations # <<>>

----------------------------------------------------------------------------
(* Reference notions for the architecture placeholder *)

\* the two identity strings of the n-th binary after the substitution each
\* side applies
RuleSide(n) == sub_ARCH(AMD64_IDENTIFIERS, RuleName(Binaries[n]))
ScannedSide(n) == sub_ARCH(ARM64_IDENTIFIERS, ScannedPath(Binaries[n]))

\* C25: the identity string of the rule of a binary and the path of its
\* scanned build, which differ only in the architecture tags (amd64/x86_64
\* in the one, arm64/aarch64 in the other), are mapped to the same string by
\* the substitutions of the two sides; substituting again changes nothing;
\* and when the rule of a scanned binary was loaded, that rule is the one
\* expected prediction of the binary.
C25_ArchIndependent ==
    \A n \in DOMAIN expected_elfs_predictions :
        /\ RuleSide(n) = ScannedSide(n)
        /\ sub_ARCH(AMD64_IDENTIFIERS, RuleSide(n)) = RuleSide(n)
        /\ sub_ARCH(ARM64_IDENTIFIERS, ScannedSide(n)) = ScannedSide(n)
        /\ RuleName(Binaries[n]) \in Range(yara_names) =>
              expected_elfs_predictions[n] = <<RuleSide(n)>>

----------------------------------------------------------------------------
(* Reference notions for the report of the strings that are also symbols   *)

\* the feature types under which a binary of from-elfs.json lists a value
TypesIn(elf_path, inst) ==
    LET features_dict == Get(from_elfs_json[1], elf_path)
    IN {features_dict[i].k : i \in {j \in DOMAIN features_dict :
                                       inst \in Range(features_dict[j].v)}}

\* the binaries of from-elfs.json that list a value
ElfsWith(inst) == {elf_path \in Keys(from_elfs_json[1]) : TypesIn(elf_path, inst) # {}}

\* the feature types under which the corpus lists a value
TypesOverCorpus(inst) == UNION {TypesIn(elf_path, inst) : elf_path \in ElfsWith(inst)}

\* the positions of the entries of a report that hold a value
EntriesOf(report, inst) ==
    {<<i, n>> \in (DOMAIN report) \X (1..MaxReportEntries) :
        n \in DOMAIN report[i].instances /\ report[i].instances[n] = inst}

\* the places at which the locations of an entry list a binary
PlacesOf(entry, elf_path) ==
    {<<l, n>> \in (DOMAIN entry.locations) \X (1..MaxReportElfs) :
        n \in DOMAIN entry.locations[l].elfs
        /\ entry.locations[l].elfs[n] = elf_path}

NoRepeats(list) == \A i, j \in DOMAIN list : list[i] = list[j] => i = j

\* C30: once the reports are written, a value is in the report if and only
\* if the corpus lists it under more than one feature type, `strings` among
\* them, whether or not one binary lists it under both; it is in exactly one
\* entry, once; the locations of its entry list exactly the binaries that
\* contain it, each once, with the feature types under which that binary
\* lists it, without repeats; and the report of isolated strings keeps, in
\* order, exactly the entries with a binary that lists the value as a string
\* and as nothing else.
C30_StringsMatchingSymbols ==
    pc = "written" =>
        LET report == matching_symbols_json[1]
        IN /\ \A inst \in Values :
                 Cardinality(EntriesOf(report, inst)) =
                    IF Cardinality(TypesOverCorpus(inst)) > 1
                          /\ "strings" \in TypesOverCorpus(inst)
                    THEN 1 ELSE 0
           /\ \A i \in DOMAIN report : \A n \in DOMAIN report[i].instances :
                 LET inst == report[i].instances[n]
                 IN /\ \A l \in DOMAIN report[i].locations :
                          /\ Range(report[i].locations[l].elfs) \subseteq ElfsWith(inst)
                          /\ NoRepeats(report[i].locations[l].feature_types)
                    /\ \A elf_path \in ElfsWith(inst) :
                          /\ Cardinality(PlacesOf(report[i], elf_path)) = 1
                          /\ \A place \in PlacesOf(report[i], elf_path) :
                                Range(report[i].locations[place[1]].feature_types) =
                                   TypesIn(elf_path, inst)
           /\ isolated_json[1] =
                 SelectSeq(report,
                           LAMBDA entry :
                              \E elf_path \in Keys(from_elfs_json[1]) :
                                 TypesIn(elf_path, entry.instances[1]) = {"strings"})

\* the reports are written for a corpus in which one binary lists a value
\* as a string only, twice, and the other lists it as a function only: the
\* value is reported, and its entry is in the report of isolated strings
C30_Witness ==
    /\ pc = "written"
    /\ isolated_json[1] # <<>>
    /\ \E inst \in Values :
          /\ EntriesOf(matching_symbols_json[1], inst) # {}
          /\ \A elf_path \in ElfsWith(inst) : Cardinality(TypesIn(elf_path, inst)) = 1
          /\ \E i \in DOMAIN from_elfs_json[1] :
                Len(SelectSeq(Get(from_elfs_json[1][i].v, "strings"),
                              LAMBDA str : str = inst)) = 2
====
